---------------------------- MODULE Spec2Model ----------------------------
(***************************************************************************)
(* Verification model of the msut core library.                            *)
(*                                                                         *)
(*   Spec     the BIN1/BINS container codec (encode, encode_arrays,        *)
(*            decode) at byte level                                        *)
(*   SpecEic  the extracted-ion-chromatogram engine                        *)
(*                                                                         *)
(* A byte buffer is a sequence of bytes; the byte at Rust offset p is      *)
(* element p + 1.  A usize / u64 is kept as its 8 little-endian bytes so   *)
(* that 64-bit offset arithmetic (and its overflow) is exact.  An f64 is   *)
(* kept as its 8 and an f32 as its 4 little-endian IEEE-754 bytes.         *)
(***************************************************************************)
EXTENDS Integers, Sequences, FiniteSets, TLC

VARIABLES
    doc,              \* codec: the MzML document handed to the encoder
    buf,              \* codec: the byte buffer
    origin,           \* codec: which operation produced buf
    res,              \* codec: outcome of decode(buf)
    buf2,             \* codec: encode(decode(buf))
    overflow_checks,  \* build profile: TRUE = debug (overflow panics), FALSE = release (wraps)
    eic_in,           \* EIC: run, time window, target and options
    eic_out,          \* EIC: outcome of calculate_eic_from_mzml
    pk_in,            \* peaks: the call (function, document, items, cores)
    pool,             \* peaks: the thread pool and the per-item result slots
    pk_out,           \* peaks: what the call returned
    ffi,              \* FFI: the entry point called, its return code and out buffer
    fp_in,            \* find_peaks: the series and the options
    fp_out,           \* find_peaks: outcome of find_peaks
    ff_in,            \* find_features: run, time window, options and cores
    ff_out,           \* find_features: outcome of find_features
    pd_in,            \* peak detector: the function called and its arguments
    pd_out            \* peak detector: what the function returned

codec_vars == <<doc, buf, origin, res, buf2, overflow_checks>>
eic_vars == <<eic_in, eic_out>>
ext_vars == <<pk_in, pool, pk_out, ffi, fp_in, fp_out, ff_in, ff_out, pd_in, pd_out>>
vars == <<doc, buf, origin, res, buf2, overflow_checks, eic_in, eic_out, ext_vars>>

-----------------------------------------------------------------------------
(* Bounds of the model *)

MaxSpec  == 2     \* spectra per run
MaxChrom == 1     \* chromatograms per run
MaxSpecT == 1     \* spectra per run of the buffers handed to the decoder alone
MaxChromT == 1    \* chromatograms per run of those buffers
MaxScans == 2     \* spectra per run in the EIC model

-----------------------------------------------------------------------------
(* Bytes and little-endian integers *)

Zeros(k) == [i \in 1..k |-> 0]

RECURSIVE LE(_, _)
\* to_le_bytes of a natural number that fits the model's integers
LE(n, k) == IF k = 0 THEN <<>> ELSE <<n % 256>> \o LE(n \div 256, k - 1)

RECURSIVE Val(_)
\* from_le_bytes, for byte strings whose value fits the model's integers
Val(b) == IF b = <<>> THEN 0 ELSE b[1] + 256 * Val(Tail(b))

ToU(n) == LE(n, 8)

\* the value of an 8-byte word is below 2^31
IsSmall(u) == u[5] = 0 /\ u[6] = 0 /\ u[7] = 0 /\ u[8] = 0 /\ u[4] < 128

RECURSIVE AddBytes(_, _, _)
AddBytes(a, b, c) ==
    IF a = <<>> THEN [v |-> <<>>, ovf |-> c > 0]
    ELSE LET s == a[1] + b[1] + c
             r == AddBytes(Tail(a), Tail(b), s \div 256)
         IN [v |-> <<s % 256>> \o r.v, ovf |-> r.ovf]

\* usize addition: wrapped value and overflow flag
AddU(a, b) == AddBytes(a, b, 0)

RECURSIVE MulBytes(_, _, _)
MulBytes(a, k, c) ==
    IF a = <<>> THEN [v |-> <<>>, ovf |-> c > 0]
    ELSE LET s == a[1] * k + c
             r == MulBytes(Tail(a), k, s \div 256)
         IN [v |-> <<s % 256>> \o r.v, ovf |-> r.ovf]

\* usize multiplication by a small constant: wrapped value and overflow flag
MulU(a, k) == MulBytes(a, k, 0)

RECURSIVE GtFrom(_, _, _)
GtFrom(a, b, i) ==
    IF i = 0 THEN FALSE
    ELSE IF a[i] # b[i] THEN a[i] > b[i]
    ELSE GtFrom(a, b, i - 1)

\* a > b on 8-byte words
GtU(a, b) == GtFrom(a, b, 8)

\* `x as u32 as usize`: keep the low 32 bits
AsU32(u) == SubSeq(u, 1, 4)
U32ToUsize(b4) == b4 \o Zeros(4)

-----------------------------------------------------------------------------
(* IEEE-754 values as bytes *)

F64Sign(b) == b[8] \div 128
F64Exp(b)  == (b[8] % 128) * 16 + (b[7] \div 16)
F64MantZero(b) ==
    (b[7] % 16) = 0 /\ b[6] = 0 /\ b[5] = 0 /\ b[4] = 0 /\ b[3] = 0 /\ b[2] = 0 /\ b[1] = 0
F64IsNaN(b) == F64Exp(b) = 2047 /\ ~F64MantZero(b)
F64IsZero(b) == F64Exp(b) = 0 /\ F64MantZero(b)
\* the Rust comparison `v < 0.0`
F64LtZero(b) == F64Sign(b) = 1 /\ ~F64IsNaN(b) /\ ~F64IsZero(b)

F32Sign(b) == b[4] \div 128
F32Exp(b)  == (b[4] % 128) * 2 + (b[3] \div 128)
F32Mant(b) == (b[3] % 128) * 65536 + b[2] * 256 + b[1]

RECURSIVE HighBit(_)
\* index of the highest set bit of m > 0
HighBit(m) == IF m <= 1 THEN 0 ELSE 1 + HighBit(m \div 2)

RECURSIVE Pow2(_)
Pow2(k) == IF k = 0 THEN 1 ELSE 2 * Pow2(k - 1)

\* f64 bytes from sign, biased exponent and the top 23 bits of the mantissa
F64FromParts(s, e, m23) ==
    << 0, 0, 0,
       (m23 % 8) * 32,
       (m23 \div 8) % 256,
       (m23 \div 2048) % 256,
       (e % 16) * 16 + (m23 \div 524288),
       s * 128 + (e \div 16) >>

\* the cast `v as f64` of an f32 (exact)
F32ToF64(b) ==
    LET s == F32Sign(b)
        e == F32Exp(b)
        m == F32Mant(b)
    IN IF e = 255 THEN F64FromParts(s, 2047, IF m = 0 THEN 0 ELSE m + (IF m < 4194304 THEN 4194304 ELSE 0))
       ELSE IF e = 0 /\ m = 0 THEN F64FromParts(s, 0, 0)
       ELSE IF e = 0
            THEN LET hb == HighBit(m)
                 IN F64FromParts(s, 1023 - 149 + hb, (m * Pow2(23 - hb)) % 8388608)
       ELSE F64FromParts(s, e - 127 + 1023, m)


F64MantHi(b) == (b[7] % 16) * 524288 + b[6] * 2048 + b[5] * 8 + (b[4] \div 32)
F64MantLo(b) == (b[4] % 32) * 16777216 + b[3] * 65536 + b[2] * 256 + b[1]

\* f32 bytes from sign and the 31 low bits (biased exponent * 2^23 + mantissa)
F32FromBits(s, bits) ==
    << bits % 256, (bits \div 256) % 256, (bits \div 65536) % 256, s * 128 + (bits \div 16777216) >>

\* the cast `v as f32` of an f64: round to nearest, ties to even
F64ToF32(b) ==
    LET s  == F64Sign(b)
        e  == F64Exp(b)
        hi == F64MantHi(b)
        lo == F64MantLo(b)
        E  == e - 896
    IN IF e = 2047
       THEN IF hi = 0 /\ lo = 0 THEN F32FromBits(s, 255 * 8388608)
            ELSE F32FromBits(s, 255 * 8388608 + (IF hi < 4194304 THEN hi + 4194304 ELSE hi))
       ELSE IF e = 0 THEN F32FromBits(s, 0)
       ELSE IF E >= 255 THEN F32FromBits(s, 255 * 8388608)
       ELSE IF E >= 1
            THEN LET up == IF lo > 268435456 \/ (lo = 268435456 /\ hi % 2 = 1) THEN 1 ELSE 0
                 IN F32FromBits(s, E * 8388608 + hi + up)
       ELSE IF 1 - E > 25 THEN F32FromBits(s, 0)
       ELSE LET sh   == 1 - E
                M    == 8388608 + hi
                q    == M \div Pow2(sh)
                r    == M % Pow2(sh)
                half == Pow2(sh - 1)
                up   == IF r > half \/ (r = half /\ (lo > 0 \/ q % 2 = 1)) THEN 1 ELSE 0
            IN F32FromBits(s, q + up)

\* v > f32::MAX as f64, for a finite v
F64GtF32Max(b) ==
    F64Exp(b) > 1150 \/ (F64Exp(b) = 1150 /\ F64MantHi(b) = 8388607 /\ F64MantLo(b) > 0)

F32Max == <<255, 255, 127, 127>>

\* f64_to_f32_lossy: the cast, with finite values clamped to +-f32::MAX
f64_to_f32_lossy(b) ==
    IF F64Exp(b) = 2047 THEN F64ToF32(b)
    ELSE IF F64GtF32Max(b) THEN [F32Max EXCEPT ![4] = F64Sign(b) * 128 + 127]
    ELSE F64ToF32(b)

-----------------------------------------------------------------------------
(* Option values: <<>> is None, <<v>> is Some(v) *)

NoneV == <<>>
Some(v) == <<v>>
IsSome(o) == o # <<>>

RECURSIVE SeqsUpTo(_, _)
\* all sequences over S of length at most n
SeqsUpTo(S, n) ==
    IF n = 0 THEN {<<>>}
    ELSE LET R == SeqsUpTo(S, n - 1)
         IN R \cup {Append(q, x) : q \in R, x \in S}

RECURSIVE Flatten(_)
Flatten(ss) == IF ss = <<>> THEN <<>> ELSE Head(ss) \o Flatten(Tail(ss))

-----------------------------------------------------------------------------
(* Documents: the MzML run handed to the encoder *)

F64_0     == <<0, 0, 0, 0, 0, 0, 0, 0>>          \* 0.0
F64_1_5   == <<0, 0, 0, 0, 0, 0, 248, 63>>       \* 1.5
F64_100   == <<0, 0, 0, 0, 0, 16, 89, 64>>       \* 100.25
F64_Neg1  == <<0, 0, 0, 0, 0, 0, 240, 191>>      \* -1.0
F64_NegH  == <<0, 0, 0, 0, 0, 0, 224, 191>>      \* -0.5
F64_NaN   == <<0, 0, 0, 0, 0, 0, 248, 127>>      \* NaN
F32_1     == <<0, 0, 128, 63>>                   \* 1.0f32
F32_2_5   == <<0, 0, 32, 64>>                    \* 2.5f32
F32_0_1   == <<205, 204, 204, 61>>               \* 0.1f32
Big32     == <<1, 0, 0, 0, 1, 0, 0, 0>>          \* the usize 2^32 + 1

NoPrecursor == NoneV
Precursor(t, l, u, s) ==
    Some([isolation_window_target_mz |-> t, isolation_window_lower_offset |-> l,
          isolation_window_upper_offset |-> u, selected_ion_mz |-> s])

SpectrumSummary(ix, al, ms, pol, st, rt, swl, swu, tic, bpi, bpm, mz, inten, prec) ==
    [index |-> ix, array_length |-> al, ms_level |-> ms, polarity |-> pol,
     spectrum_type |-> st, retention_time |-> rt, scan_window_lower_limit |-> swl,
     scan_window_upper_limit |-> swu, total_ion_current |-> tic,
     base_peak_intensity |-> bpi, base_peak_mz |-> bpm, mz_array |-> mz,
     intensity_array |-> inten, precursor |-> prec]

ChromatogramSummary(ix, al, t, inten, id) ==
    [index |-> ix, array_length |-> al, time_array |-> t, intensity_array |-> inten, id |-> id]

\* the spectra a run of the model is built from
SpectrumKinds ==
    { \* no metadata, no arrays
      SpectrumSummary(ToU(0), ToU(0), NoneV, NoneV, NoneV, NoneV, NoneV, NoneV, NoneV, NoneV,
                      NoneV, NoneV, NoneV, NoPrecursor),
      \* a centroided MS1 scan with full metadata
      SpectrumSummary(ToU(1), ToU(2), Some(1), Some(0), Some(1), Some(F64_1_5), Some(F64_0),
                      Some(F64_100), Some(F64_100), Some(F64_1_5), Some(F64_100),
                      Some(<<F64_1_5, F64_100>>), Some(<<F32_1, F32_2_5>>), NoPrecursor),
      \* present values that coincide with the sentinels, a present but empty array
      SpectrumSummary(ToU(2), ToU(0), Some(255), Some(1), Some(0), Some(F64_NegH), Some(F64_Neg1),
                      NoneV, Some(F64_NaN), NoneV, NoneV,
                      Some(<<>>), Some(<<F32_0_1>>), Precursor(NoneV, NoneV, NoneV, NoneV)),
      \* an MS2 scan with a precursor, arrays of unequal length, an index above 2^32
      SpectrumSummary(Big32, ToU(3), Some(2), NoneV, Some(1), Some(F64_100), NoneV, NoneV,
                      NoneV, NoneV, NoneV,
                      Some(<<F64_100>>), Some(<<F32_2_5, F32_1, F32_0_1>>),
                      Precursor(Some(F64_100), NoneV, Some(F64_NegH), Some(F64_1_5))) }

\* the chromatograms a run of the model is built from
ChromatogramKinds ==
    { ChromatogramSummary(ToU(1), ToU(2), Some(<<F64_0, F64_1_5>>), Some(<<F32_1, F32_2_5>>),
                          <<84, 73, 67>>),
      ChromatogramSummary(Big32, ToU(1), NoneV, Some(<<F32_0_1>>), <<>>) }

Run(sp, ch) == [spectra |-> sp, chromatograms |-> ch]
MzML(r) == [run |-> r]

Docs ==
    {MzML(NoneV)} \cup
    {MzML(Some(Run(sp, ch))) : sp \in SeqsUpTo(SpectrumKinds, MaxSpec),
                               ch \in SeqsUpTo(ChromatogramKinds, MaxChrom)}

\* the values uninitialised memory is observed to hold
UninitBytes == {0, 170}

-----------------------------------------------------------------------------
(* encode: MzML -> BIN1 bytes *)

H  == 64     \* header size
SI == 32     \* spectrum index entry
CI == 32     \* chromatogram index entry
SM == 104    \* spectrum metadata entry
CM == 24     \* chromatogram metadata entry

Max(a, b) == IF a >= b THEN a ELSE b
Min(a, b) == IF a <= b THEN a ELSE b

a8(x) == ((x + 7) \div 8) * 8

RECURSIVE GrowCap(_, _)
GrowCap(cap, need) == IF cap < need THEN GrowCap(cap * 2, need) ELSE cap

\* the length of `out` after ensure_cap(out, need); the grown part is zero-filled
ensure_cap(len, need) == IF need > len THEN GrowCap(Max(len, 64), need) ELSE len

\* The encoder's state while it lays out the payload: the cursor, the length
\* of out, the byte ranges copied so far, the last (off, len) returned, and
\* the index entries sx, sy, cx, cy, cid.
EncState(cur, plan) ==
    [cur |-> cur, len |-> plan, plan |-> plan, data_off |-> cur, writes |-> <<>>,
     ret |-> <<0, 0>>, sx |-> <<>>, sy |-> <<>>, cx |-> <<>>, cy |-> <<>>, cid |-> <<>>]

\* ensure_cap, copy_nonoverlapping and the cursor update of the write helpers
CopyAt(st, pos, nbytes, bytes, n) ==
    [st EXCEPT !.cur = pos + nbytes,
               !.len = ensure_cap(@, pos + nbytes),
               !.writes = Append(@, [pos |-> pos, bytes |-> bytes]),
               !.ret = <<pos, n>>]

write_f64_le(st, vals) == CopyAt(st, ((st.cur + 7) \div 8) * 8, Len(vals) * 8, Flatten(vals), Len(vals))

\* a writer that forgets to align the cursor
write_f32_le_Unaligned(st, vals) == CopyAt(st, st.cur, Len(vals) * 4, Flatten(vals), Len(vals))

write_f32_le(st, vals) == CopyAt(st, ((st.cur + 7) \div 8) * 8, Len(vals) * 4, Flatten(vals), Len(vals))

\* lines 141-149 of encode: a non-empty chromatogram id
WriteId(st, id) == CopyAt(st, a8(st.cur), Len(id), id, Len(id))

RECURSIVE PlanArrays_Unaligned(_, _, _)
\* a planning loop that adds the bytes of the arrays without aligning
PlanArrays_Unaligned(plan, arrs, stride) ==
    IF arrs = <<>> THEN plan
    ELSE PlanArrays_Unaligned(IF IsSome(Head(arrs)) THEN plan + Len(Head(arrs)[1]) * stride ELSE plan,
                              Tail(arrs), stride)

RECURSIVE PlanArrays(_, _, _)
\* one planning loop of encode (lines 47-70): every Some array, empty or not
PlanArrays(plan, arrs, stride) ==
    IF arrs = <<>> THEN plan
    ELSE PlanArrays(IF IsSome(Head(arrs)) THEN a8(plan) + Len(Head(arrs)[1]) * stride ELSE plan,
                    Tail(arrs), stride)

RECURSIVE PlanIds(_, _)
\* the planning loop over the chromatogram ids (lines 71-77)
PlanIds(plan, ids) ==
    IF ids = <<>> THEN plan
    ELSE PlanIds(IF Head(ids) # <<>> THEN a8(plan) + Len(Head(ids)) ELSE plan, Tail(ids))

\* push the (off, len) just returned, or (0, 0), onto the entries of a section
PushRet(w, sec) == [w EXCEPT ![sec] = Append(@, w.ret)]
PushNone(st, sec) == [st EXCEPT ![sec] = Append(@, <<0, 0>>)]

\* one iteration of a writing loop: only a non-empty Some array is stored
PutArray(st, a, wide, sec) ==
    IF IsSome(a) /\ a[1] # <<>>
    THEN PushRet(IF wide THEN write_f64_le(st, a[1]) ELSE write_f32_le(st, a[1]), sec)
    ELSE PushNone(st, sec)

RECURSIVE PutArrays(_, _, _, _)
\* one writing loop of encode (lines 103-134)
PutArrays(st, arrs, wide, sec) ==
    IF arrs = <<>> THEN st
    ELSE PutArrays(PutArray(st, Head(arrs), wide, sec), Tail(arrs), wide, sec)

RECURSIVE PutIds(_, _)
\* the id loop of encode (lines 135-151)
PutIds(st, ids) ==
    IF ids = <<>> THEN st
    ELSE PutIds(IF Head(ids) = <<>> THEN PushNone(st, "cid") ELSE PushRet(WriteId(st, Head(ids)), "cid"),
                Tail(ids))

Field(seq, f) == [i \in 1..Len(seq) |-> seq[i][f]]

\* H + sb + cb + smb + cmb
TablesSize(run) == H + Len(run.spectra) * SI + Len(run.chromatograms) * CI
                     + Len(run.spectra) * SM + Len(run.chromatograms) * CM

\* the size encode plans before it allocates (lines 45-77)
PlanSize(run) ==
    PlanIds(PlanArrays(PlanArrays(PlanArrays(PlanArrays(TablesSize(run),
                Field(run.spectra, "mz_array"), 8),
                Field(run.spectra, "intensity_array"), 4),
                Field(run.chromatograms, "time_array"), 8),
                Field(run.chromatograms, "intensity_array"), 4),
            Field(run.chromatograms, "id"))

\* the layout encode computes for a run: planned size, final cursor, copies,
\* index entries
EncodeLayout(run) ==
    PutIds(PutArrays(PutArrays(PutArrays(PutArrays(EncState(TablesSize(run), PlanSize(run)),
                Field(run.spectra, "mz_array"), TRUE, "sx"),
                Field(run.spectra, "intensity_array"), FALSE, "sy"),
                Field(run.chromatograms, "time_array"), TRUE, "cx"),
                Field(run.chromatograms, "intensity_array"), FALSE, "cy"),
           Field(run.chromatograms, "id"))

Unwrap(o, d) == IF IsSome(o) THEN o[1] ELSE d

IndexEntry(x, y) == LE(x[1], 8) \o LE(x[2], 4) \o LE(y[1], 8) \o LE(y[2], 4) \o Zeros(8)

\* the ten f64 fields of a spectrum's metadata, in layout order
SpecMetaFloats(s) ==
    <<s.retention_time, s.scan_window_lower_limit, s.scan_window_upper_limit,
      s.total_ion_current, s.base_peak_intensity, s.base_peak_mz>>
    \o (IF IsSome(s.precursor)
        THEN <<s.precursor[1].isolation_window_target_mz,
               s.precursor[1].isolation_window_lower_offset,
               s.precursor[1].isolation_window_upper_offset,
               s.precursor[1].selected_ion_mz>>
        ELSE <<NoneV, NoneV, NoneV, NoneV>>)

\* lines 174-201: the 92 bytes encode writes of a spectrum's 104-byte metadata
\* entry; the last 12 bytes are never written and keep what the buffer held
SpecMeta(s, g) ==
    AsU32(s.index) \o AsU32(s.array_length)
    \o <<Unwrap(s.ms_level, 255), Unwrap(s.polarity, 255), Unwrap(s.spectrum_type, 255), 0>>
    \o Flatten([k \in 1..10 |-> Unwrap(SpecMetaFloats(s)[k], F64_Neg1)])
    \o [i \in 1..12 |-> g]

\* lines 203-211
ChromMeta(c, id) == AsU32(c.index) \o AsU32(c.array_length) \o LE(id[1], 8) \o LE(id[2], 4) \o Zeros(4)

RECURSIVE ByteAt(_, _, _)
\* the byte the copies left at offset p; d where nothing was copied
ByteAt(writes, p, d) ==
    IF writes = <<>> THEN d
    ELSE IF writes[Len(writes)].pos <= p /\ p < writes[Len(writes)].pos + Len(writes[Len(writes)].bytes)
         THEN writes[Len(writes)].bytes[p - writes[Len(writes)].pos + 1]
         ELSE ByteAt(SubSeq(writes, 1, Len(writes) - 1), p, d)

Magic1 == <<66, 73, 78, 49>>     \* "BIN1"
MagicS == <<66, 73, 78, 83>>     \* "BINS"

\* the header of lines 85-91 and 213-219
EncodeHeader(nS, nC, L) ==
    Magic1 \o LE(nS, 4) \o LE(nC, 4) \o <<2, 1, 2, 1>>
    \o LE(IF nS > 0 THEN H ELSE 0, 8)
    \o LE(IF nC > 0 THEN H + nS * SI ELSE 0, 8)
    \o LE(IF nS > 0 THEN H + nS * SI + nC * CI ELSE 0, 8)
    \o LE(IF nC > 0 THEN H + nS * SI + nC * CI + nS * SM ELSE 0, 8)
    \o LE(L.data_off, 8) \o LE(L.cur, 8)

\* the buffer encode returns for a run, given its layout L; a byte encode never
\* writes holds g inside the planned buffer and 0 where ensure_cap grew it
EncodeRun(run, L, g) ==
    EncodeHeader(Len(run.spectra), Len(run.chromatograms), L)
    \o Flatten([i \in 1..Len(run.spectra) |-> IndexEntry(L.sx[i], L.sy[i])])
    \o Flatten([i \in 1..Len(run.chromatograms) |-> IndexEntry(L.cx[i], L.cy[i])])
    \o Flatten([i \in 1..Len(run.spectra) |-> SpecMeta(run.spectra[i], g)])
    \o Flatten([i \in 1..Len(run.chromatograms) |-> ChromMeta(run.chromatograms[i], L.cid[i])])
    \o [k \in 1..(L.cur - L.data_off) |->
           ByteAt(L.writes, L.data_off + k - 1, IF L.data_off + k - 1 < L.plan THEN g ELSE 0)]

\* encode(mzml).  g is the content of the bytes of the set_len'd buffer that
\* encode never writes.
encode(mzml, g) ==
    IF ~IsSome(mzml.run)
    THEN Magic1 \o LE(0, 4) \o LE(0, 4) \o <<2, 1, 2, 1>> \o Zeros(40) \o LE(H, 8)
    ELSE EncodeRun(mzml.run[1], EncodeLayout(mzml.run[1]), g)

\* one iteration of a planning loop of encode_arrays (lines 258-297): every
\* Some array gets an aligned offset, an empty one included; lines 333-360
\* copy an array when its off and len are not 0
PlanEntry(st, a, stride, sec) ==
    IF IsSome(a)
    THEN [st EXCEPT !.cur = a8(@) + Len(a[1]) * stride,
                    ![sec] = Append(@, <<a8(st.cur), Len(a[1])>>),
                    !.writes = IF a8(st.cur) # 0 /\ Len(a[1]) # 0
                               THEN Append(@, [pos |-> a8(st.cur), bytes |-> Flatten(a[1])])
                               ELSE @]
    ELSE PushNone(st, sec)

RECURSIVE PlanEntries(_, _, _, _)
PlanEntries(st, arrs, stride, sec) ==
    IF arrs = <<>> THEN st
    ELSE PlanEntries(PlanEntry(st, Head(arrs), stride, sec), Tail(arrs), stride, sec)

ArraysLayout(run) ==
    PlanEntries(PlanEntries(PlanEntries(PlanEntries(
                EncState(H + Len(run.spectra) * 32 + Len(run.chromatograms) * 32, 0),
                Field(run.spectra, "mz_array"), 8, "sx"),
                Field(run.spectra, "intensity_array"), 4, "sy"),
                Field(run.chromatograms, "time_array"), 8, "cx"),
                Field(run.chromatograms, "intensity_array"), 4, "cy")

\* the buffer encode_arrays returns for a run, given its layout L; the buffer
\* is vec![0u8; total], so a byte never written is 0
EncodeArraysRun(run, L) ==
    MagicS \o LE(Len(run.spectra), 4) \o LE(Len(run.chromatograms), 4) \o <<2, 1, 2, 1>>
    \o LE(H, 8) \o LE(H + Len(run.spectra) * 32, 8) \o LE(0, 8) \o LE(0, 8)
    \o LE(L.data_off, 8) \o LE(L.cur, 8)
    \o Flatten([i \in 1..Len(run.spectra) |-> IndexEntry(L.sx[i], L.sy[i])])
    \o Flatten([i \in 1..Len(run.chromatograms) |-> IndexEntry(L.cx[i], L.cy[i])])
    \o [k \in 1..(L.cur - L.data_off) |-> ByteAt(L.writes, L.data_off + k - 1, 0)]

\* encode_arrays(mzml): the "BINS" variant
encode_arrays(mzml) ==
    IF ~IsSome(mzml.run)
    THEN MagicS \o LE(1, 4) \o LE(0, 4) \o <<2, 1, 2, 1>> \o Zeros(32) \o LE(H, 8) \o LE(H, 8)
    ELSE EncodeArraysRun(mzml.run[1], ArraysLayout(mzml.run[1]))

-----------------------------------------------------------------------------
(* decode: bytes -> Result<MzML, String>, or a panic *)

\* an outcome: Ok(v), Err(msg), or a panic; v is meaningful only for Ok
Ok(v)      == [tag |-> "ok", v |-> v, msg |-> ""]
Err(msg)   == [tag |-> "err", v |-> Zeros(8), msg |-> msg]
Panic(msg) == [tag |-> "panic", v |-> Zeros(8), msg |-> msg]

\* the `?` operator: a failure of r ends the function, else go on with its value
Then(r, F(_)) == IF r.tag # "ok" THEN r ELSE F(r.v)

\* the usize sum r = a + b as the build sees it: overflow panics in a build
\* with overflow checks and wraps in a build without
Checked(r) == IF r.ovf /\ overflow_checks THEN Panic("attempt to add with overflow") ELSE Ok(r.v)
Plus(a, b) == Checked(AddU(a, b))

\* the slice bin[p..e] of rd_*, after its check `p + k > b.len()`
SliceTo(bin, p, e) ==
    IF GtU(e, ToU(Len(bin))) THEN Err("OOB")
    ELSE IF GtU(p, e) THEN Panic("slice index starts after its end")
    ELSE Ok(SubSeq(bin, Val(p) + 1, Val(e)))

\* rd_u32 / rd_u64 / rd_f64: the k bytes at offset p
Rd(bin, p, k) == Then(Plus(p, ToU(k)), LAMBDA e : SliceTo(bin, p, e))

\* bin[p]
ByteIdx(bin, p) ==
    IF ~GtU(ToU(Len(bin)), p) THEN Panic("index out of bounds") ELSE Ok(bin[Val(p) + 1])

\* the fields of the three kinds of table entry: offset c in the entry and
\* width w; w = 1 is a plain index bin[b + c], the others go through rd_*
IndexFields == <<[c |-> 0, w |-> 8], [c |-> 8, w |-> 4], [c |-> 12, w |-> 8], [c |-> 20, w |-> 4]>>
SpecMetaFields ==
    <<[c |-> 0, w |-> 4], [c |-> 4, w |-> 4], [c |-> 8, w |-> 1], [c |-> 9, w |-> 1],
      [c |-> 10, w |-> 1]>> \o [k \in 1..10 |-> [c |-> 12 + 8 * (k - 1), w |-> 8]]
ChromMetaFields == <<[c |-> 0, w |-> 4], [c |-> 4, w |-> 4], [c |-> 8, w |-> 8], [c |-> 16, w |-> 4]>>

\* one field read: rd_*(bin, b + c) or bin[b + c]
ReadField(bin, b, f) ==
    Then(Plus(b, ToU(f.c)), LAMBDA p : IF f.w = 1 THEN ByteIdx(bin, p) ELSE Rd(bin, p, f.w))

RECURSIVE ReadFields(_, _, _, _)
\* the fields of one entry, read in order; the first failure ends decode
ReadFields(bin, b, fields, acc) ==
    IF fields = <<>> THEN Ok(acc)
    ELSE Then(ReadField(bin, b, Head(fields)),
              LAMBDA v : ReadFields(bin, b, Tail(fields), Append(acc, v)))

\* a decoder that takes only the documented sentinel -1.0 as absent
OptF64_OnlyMinusOne(v) == IF v = F64_Neg1 THEN NoneV ELSE Some(v)

\* `if v < 0.0 { None } else { Some(v) }`
OptF64(v) == IF F64LtZero(v) THEN NoneV ELSE Some(v)
\* `if v == 255 { None } else { Some(v) }`
OptU8(v) == IF v = 255 THEN NoneV ELSE Some(v)

\* lines 113-128: the precursor from its four optional fields
MakePrecursor(o) ==
    IF o[7] = NoneV /\ o[8] = NoneV /\ o[9] = NoneV /\ o[10] = NoneV THEN NoPrecursor
    ELSE Precursor(o[7], o[8], o[9], o[10])

\* lines 129-144: a spectrum from its index, array_length, three option bytes
\* and ten optional floats
MakeSpectrum(f, u, o) ==
    SpectrumSummary(U32ToUsize(f[1]), U32ToUsize(f[2]), u[1], u[2], u[3],
                    o[1], o[2], o[3], o[4], o[5], o[6], NoneV, NoneV, MakePrecursor(o))

\* the value of a table entry, from the bytes of its fields
MakeEntry(kind, f) ==
    IF kind = "index"
    THEN [x_off |-> f[1], x_len |-> f[2], y_off |-> f[3], y_len |-> f[4]]
    ELSE IF kind = "chrom meta"
    THEN [index |-> U32ToUsize(f[1]), array_length |-> U32ToUsize(f[2]),
          id_off |-> f[3], id_len |-> f[4]]
    ELSE MakeSpectrum(f, [k \in 1..3 |-> OptU8(f[2 + k])], [k \in 1..10 |-> OptF64(f[5 + k])])

EntryFields(kind) ==
    IF kind = "index" THEN IndexFields
    ELSE IF kind = "chrom meta" THEN ChromMetaFields ELSE SpecMetaFields

EntrySize(kind) == IF kind = "index" THEN 32 ELSE IF kind = "chrom meta" THEN 24 ELSE 104

\* entry i of a table: b = off + i * size, then its fields
ReadEntry(bin, off, i, kind) ==
    Then(Plus(off, ToU(i * EntrySize(kind))),
         LAMBDA b : Then(ReadFields(bin, b, EntryFields(kind), <<>>),
                         LAMBDA f : Ok(MakeEntry(kind, f))))

RECURSIVE ReadEntries(_, _, _, _, _, _)
\* `for i in 0..n`
ReadEntries(bin, off, n, kind, i, acc) ==
    IF ToU(i) = n THEN Ok(acc)
    ELSE Then(ReadEntry(bin, off, i, kind),
              LAMBDA e : ReadEntries(bin, off, n, kind, i + 1, Append(acc, e)))

\* the fit check of a table: n.checked_mul(size), then off + len > bin.len()
TableCheck(bin, off, m, what) ==
    IF m.ovf THEN Err(what \o " ovf")
    ELSE Then(Plus(off, m.v),
              LAMBDA e : IF GtU(e, ToU(Len(bin))) THEN Err(what \o " OOB") ELSE Ok(<<>>))

\* a table of decode: the spectrum index (lines 31-44), the chromatogram index
\* (46-59), the spectrum metadata (65-145), the chromatogram metadata (147-166)
ReadTable(bin, off, n, kind, what) ==
    Then(TableCheck(bin, off, MulU(n, EntrySize(kind)), what),
         LAMBDA c : ReadEntries(bin, off, n, kind, 0, <<>>))

RECURSIVE Chunks(_, _)
\* a byte string cut into k-byte elements
Chunks(b, k) == IF b = <<>> THEN <<>> ELSE <<SubSeq(b, 1, k)>> \o Chunks(SubSeq(b, k + 1, Len(b)), k)

\* the element loop of read_array_as_f64, after its bounds check
ReadElements(bin, off, e, fmt) ==
    IF GtU(e.v, ToU(Len(bin))) THEN Err("array OOB")
    ELSE IF e.ovf THEN Panic("slice index out of range")
    ELSE IF fmt = 2 THEN Ok(Some(Chunks(SubSeq(bin, Val(off) + 1, Val(e.v)), 8)))
    ELSE Ok(Some([j \in 1..((Val(e.v) - Val(off)) \div 4) |->
                     F32ToF64(SubSeq(bin, Val(off) + 4 * j - 3, Val(off) + 4 * j))]))

\* the bounds check of read_array_as_f64: need = n.checked_mul(stride), then
\* off + need > buf.len()
CheckArray(bin, off, need, fmt) ==
    IF need.ovf THEN Err("len overflow")
    ELSE Then(Checked(AddU(off, need.v)), LAMBDA x : ReadElements(bin, off, AddU(off, need.v), fmt))

\* read_array_as_f64(buf, off, len, fmt)
read_array_as_f64(bin, off, len, fmt) ==
    IF off = Zeros(8) \/ len = Zeros(4) THEN Ok(NoneV)
    ELSE IF fmt # 1 /\ fmt # 2 THEN Err("unknown fmt")
    ELSE CheckArray(bin, off, MulU(U32ToUsize(len), IF fmt = 2 THEN 8 ELSE 4), fmt)

RECURSIVE ReadArrays(_, _, _, _, _, _)
\* one array loop of decode (lines 168-179, 222-245): the x or the y array of
\* every index entry from i on
ReadArrays(bin, idx, isX, fmt, i, acc) ==
    IF i > Len(idx) THEN Ok(acc)
    ELSE Then(read_array_as_f64(bin, IF isX THEN idx[i].x_off ELSE idx[i].y_off,
                                IF isX THEN idx[i].x_len ELSE idx[i].y_len, fmt),
              LAMBDA a : ReadArrays(bin, idx, isX, fmt, i + 1, Append(acc, a)))

RECURSIVE ReadArrayLoops(_, _, _)
\* the four array loops, in order; a loop is [idx, isX, fmt]
ReadArrayLoops(bin, loops, acc) ==
    IF loops = <<>> THEN Ok(acc)
    ELSE Then(ReadArrays(bin, Head(loops).idx, Head(loops).isX, Head(loops).fmt, 1, <<>>),
              LAMBDA a : ReadArrayLoops(bin, Tail(loops), Append(acc, a)))

IsCont(b) == b >= 128 /\ b <= 191

RECURSIVE Utf8Valid(_)
\* std::str::from_utf8(b).is_ok()
Utf8Valid(b) ==
    IF b = <<>> THEN TRUE
    ELSE IF b[1] < 128 THEN Utf8Valid(Tail(b))
    ELSE IF b[1] >= 194 /\ b[1] <= 223
         THEN Len(b) >= 2 /\ IsCont(b[2]) /\ Utf8Valid(SubSeq(b, 3, Len(b)))
    ELSE IF b[1] >= 224 /\ b[1] <= 239
         THEN Len(b) >= 3 /\ IsCont(b[2]) /\ IsCont(b[3])
              /\ (b[1] = 224 => b[2] >= 160) /\ (b[1] = 237 => b[2] <= 159)
              /\ Utf8Valid(SubSeq(b, 4, Len(b)))
    ELSE IF b[1] >= 240 /\ b[1] <= 244
         THEN Len(b) >= 4 /\ IsCont(b[2]) /\ IsCont(b[3]) /\ IsCont(b[4])
              /\ (b[1] = 240 => b[2] >= 144) /\ (b[1] = 244 => b[2] <= 143)
              /\ Utf8Valid(SubSeq(b, 5, Len(b)))
    ELSE FALSE

\* from_utf8(..).unwrap_or_default()
Utf8OrEmpty(raw) == IF Utf8Valid(raw) THEN raw ELSE <<>>

\* the slice of an id (lines 185-191), e = o + l
IdSlice(bin, off, e) ==
    IF e.ovf /\ overflow_checks THEN Panic("attempt to add with overflow")
    ELSE IF GtU(e.v, ToU(Len(bin))) THEN Err("chrom id OOB")
    ELSE IF e.ovf THEN Panic("slice index out of range")
    ELSE Ok(Utf8OrEmpty(SubSeq(bin, Val(off) + 1, Val(e.v))))

\* one chromatogram id (lines 181-193)
ReadId(bin, off, len) ==
    IF off = Zeros(8) \/ len = Zeros(4) THEN Ok(<<>>)
    ELSE IdSlice(bin, off, AddU(off, U32ToUsize(len)))

RECURSIVE ReadIds(_, _, _, _)
ReadIds(bin, meta, i, acc) ==
    IF i > Len(meta) THEN Ok(acc)
    ELSE Then(ReadId(bin, meta[i].id_off, meta[i].id_len),
              LAMBDA a : ReadIds(bin, meta, i + 1, Append(acc, a)))

\* the header as decode reads it (lines 12-26); the four format bytes under
\* the names decode gives them
DecodeHeader(bin) ==
    [magic |-> SubSeq(bin, 1, 4),
     n_spec |-> U32ToUsize(SubSeq(bin, 5, 8)), n_ch |-> U32ToUsize(SubSeq(bin, 9, 12)),
     cx |-> bin[13], cy |-> bin[14], sx |-> bin[15], sy |-> bin[16],
     s_idx_off |-> SubSeq(bin, 17, 24), c_idx_off |-> SubSeq(bin, 25, 32),
     s_meta_off |-> SubSeq(bin, 33, 40), c_meta_off |-> SubSeq(bin, 41, 48),
     data_off |-> SubSeq(bin, 49, 56)]

\* the loops of lines 168-179 and 222-245
ArrayLoops(h, sidx, cidx) ==
    <<[idx |-> sidx, isX |-> TRUE, fmt |-> h.sx], [idx |-> sidx, isX |-> FALSE, fmt |-> h.sy],
      [idx |-> cidx, isX |-> TRUE, fmt |-> h.cx], [idx |-> cidx, isX |-> FALSE, fmt |-> h.cy]>>

\* the metadata decode materialises for a "BINS" buffer (lines 195-221)
DefaultSpectrum(i) ==
    SpectrumSummary(ToU(i), ToU(0), NoneV, NoneV, NoneV, NoneV, NoneV, NoneV, NoneV, NoneV,
                    NoneV, NoneV, NoneV, NoPrecursor)
DefaultChromatogram(i) == ChromatogramSummary(ToU(i), ToU(0), NoneV, NoneV, <<>>)

OptLen(a) == IF IsSome(a) THEN Len(a[1]) ELSE 0

\* the usize n.max(array_length) of lines 226-244
MaxLenU(n, al) == IF GtU(ToU(n), al) THEN ToU(n) ELSE al

\* the document decode returns (lines 250-271)
Decoded(spectra, chroms) == Ok(MzML(Some(Run(spectra, chroms))))

\* the "BIN1" result: metadata entries completed with arrays and ids
Bin1Run(smeta, cmeta, arrs, ids) ==
    Decoded([i \in 1..Len(smeta) |->
                [smeta[i] EXCEPT !.mz_array = arrs[1][i], !.intensity_array = arrs[2][i]]],
            [i \in 1..Len(cmeta) |->
                ChromatogramSummary(cmeta[i].index, cmeta[i].array_length,
                                    arrs[3][i], arrs[4][i], ids[i])])

\* the "BINS" result: default metadata, array_length from the arrays read
BinsRun(nS, nC, arrs) ==
    Decoded([i \in 1..nS |->
                [DefaultSpectrum(i - 1) EXCEPT
                    !.mz_array = arrs[1][i], !.intensity_array = arrs[2][i],
                    !.array_length = MaxLenU(OptLen(arrs[2][i]), MaxLenU(OptLen(arrs[1][i]), @))]],
            [i \in 1..nC |->
                [DefaultChromatogram(i - 1) EXCEPT
                    !.time_array = arrs[3][i], !.intensity_array = arrs[4][i],
                    !.array_length = MaxLenU(OptLen(arrs[4][i]), MaxLenU(OptLen(arrs[3][i]), @))]])

\* lines 64-193
DecodeBin1(bin, h, sidx, cidx) ==
    Then(ReadTable(bin, h.s_meta_off, h.n_spec, "spec meta", "spec meta"), LAMBDA smeta :
    Then(ReadTable(bin, h.c_meta_off, h.n_ch, "chrom meta", "chrom meta"), LAMBDA cmeta :
    Then(ReadArrayLoops(bin, ArrayLoops(h, sidx, cidx), <<>>), LAMBDA arrs :
    Then(ReadIds(bin, cmeta, 1, <<>>), LAMBDA ids :
    Bin1Run(smeta, cmeta, arrs, ids)))))

\* lines 194-245
DecodeBins(bin, h, sidx, cidx) ==
    Then(ReadArrayLoops(bin, ArrayLoops(h, sidx, cidx), <<>>), LAMBDA arrs :
    BinsRun(Len(sidx), Len(cidx), arrs))

\* decode after the header is read (lines 27-248)
DecodeBody(bin, h) ==
    IF GtU(h.data_off, ToU(Len(bin))) THEN Err("data_off OOB")
    ELSE Then(ReadTable(bin, h.s_idx_off, h.n_spec, "index", "spec index"), LAMBDA sidx :
         Then(ReadTable(bin, h.c_idx_off, h.n_ch, "index", "chrom index"), LAMBDA cidx :
         IF h.magic = Magic1 THEN DecodeBin1(bin, h, sidx, cidx)
         ELSE IF h.magic = MagicS THEN DecodeBins(bin, h, sidx, cidx)
         ELSE Err("bad magic")))

\* decode(bin)
decode(bin) == IF Len(bin) < 64 THEN Err("short header") ELSE DecodeBody(bin, DecodeHeader(bin))

-----------------------------------------------------------------------------
(* The codec as a state machine *)

Pending == [tag |-> "pending", v |-> Zeros(8), msg |-> ""]

\* no peaks call, no FFI call, no find_peaks call, no find_features call and
\* no call of a function of the peak detector
ExtIdle ==
    /\ pk_in = <<>>
    /\ pool = <<>>
    /\ pk_out = Pending
    /\ ffi = <<>>
    /\ fp_in = <<>>
    /\ fp_out = Pending
    /\ ff_in = <<>>
    /\ ff_out = Pending
    /\ pd_in = <<>>
    /\ pd_out = Pending

CodecInit(D) ==
    /\ doc \in D
    /\ buf = <<>>
    /\ origin = "none"
    /\ res = Pending
    /\ buf2 = <<>>
    /\ overflow_checks \in BOOLEAN
    /\ eic_in = <<>>
    /\ eic_out = Pending
    /\ ExtIdle

Init == CodecInit(Docs)

\* bin = encode(&mzml)
Encode ==
    /\ origin = "none"
    /\ \E g \in UninitBytes : buf' = encode(doc, g)
    /\ origin' = "encode"
    /\ UNCHANGED <<doc, res, buf2, overflow_checks, eic_in, eic_out, ext_vars>>

\* bin = encode_arrays(&mzml)
EncodeArrays ==
    /\ origin = "none"
    /\ buf' = encode_arrays(doc)
    /\ origin' = "encode_arrays"
    /\ UNCHANGED <<doc, res, buf2, overflow_checks, eic_in, eic_out, ext_vars>>

\* decode(bin), on whatever bytes the caller holds
Decode ==
    /\ origin # "none"
    /\ res.tag = "pending"
    /\ res' = decode(buf)
    /\ UNCHANGED <<doc, buf, origin, buf2, overflow_checks, eic_in, eic_out, ext_vars>>

\* The decoded run as an encoder input: SpectrumSummary keeps intensities as
\* f32, so the f64 values decode produced are narrowed.
NarrowArray(a) == IF IsSome(a) THEN Some([j \in 1..Len(a[1]) |-> f64_to_f32_lossy(a[1][j])]) ELSE NoneV

AsEncoderInput(m) ==
    LET run == m.run[1]
    IN MzML(Some(Run(
         [i \in 1..Len(run.spectra) |->
             [run.spectra[i] EXCEPT !.intensity_array = NarrowArray(@)]],
         [i \in 1..Len(run.chromatograms) |->
             [run.chromatograms[i] EXCEPT !.intensity_array = NarrowArray(@)]])))

\* encode(&decode(bin)?)
Reencode ==
    /\ res.tag = "ok"
    /\ buf2 = <<>>
    /\ \E g \in UninitBytes : buf2' = encode(AsEncoderInput(res.v), g)
    /\ UNCHANGED <<doc, buf, origin, res, overflow_checks, eic_in, eic_out, ext_vars>>

RoundTripNext == Encode \/ EncodeArrays \/ Decode \/ Reencode

Spec == Init /\ [][RoundTripNext]_vars

-----------------------------------------------------------------------------
(* Round trip: decode(encode(doc)) *)

Roundtripped == origin = "encode" /\ IsSome(doc.run) /\ res.tag # "pending"

WidenArray(a) == IF IsSome(a) THEN Some([j \in 1..Len(a[1]) |-> F32ToF64(a[1][j])]) ELSE NoneV

\* what the container can hold of a value
KeptU32(u)  == U32ToUsize(AsU32(u))
KeptU8(o)   == IF o = Some(255) THEN NoneV ELSE o
KeptF64(o)  == IF IsSome(o) /\ F64LtZero(o[1]) THEN NoneV ELSE o
KeptArr(a)  == IF IsSome(a) /\ a[1] = <<>> THEN NoneV ELSE a
KeptPrecursor(p) ==
    IF ~IsSome(p) THEN NoPrecursor
    ELSE LET t == KeptF64(p[1].isolation_window_target_mz)
             l == KeptF64(p[1].isolation_window_lower_offset)
             u == KeptF64(p[1].isolation_window_upper_offset)
             e == KeptF64(p[1].selected_ion_mz)
         IN IF t = NoneV /\ l = NoneV /\ u = NoneV /\ e = NoneV THEN NoPrecursor
            ELSE Precursor(t, l, u, e)

KeptSpectrum(s) ==
    SpectrumSummary(KeptU32(s.index), KeptU32(s.array_length), KeptU8(s.ms_level),
                    KeptU8(s.polarity), KeptU8(s.spectrum_type), KeptF64(s.retention_time),
                    KeptF64(s.scan_window_lower_limit), KeptF64(s.scan_window_upper_limit),
                    KeptF64(s.total_ion_current), KeptF64(s.base_peak_intensity),
                    KeptF64(s.base_peak_mz), KeptArr(s.mz_array),
                    KeptArr(WidenArray(s.intensity_array)), KeptPrecursor(s.precursor))

KeptChromatogram(c) ==
    ChromatogramSummary(KeptU32(c.index), KeptU32(c.array_length), KeptArr(c.time_array),
                        KeptArr(WidenArray(c.intensity_array)), c.id)

\* a precursor as its four optional fields; no precursor is four absent fields
PrecursorFields(p) ==
    IF IsSome(p) THEN p[1] ELSE Precursor(NoneV, NoneV, NoneV, NoneV)[1]

C2_ReencodeIdentity ==
    (origin = "encode" /\ res.tag # "pending") =>
        (res.tag = "ok" /\ (buf2 # <<>> => buf2 = buf))

-----------------------------------------------------------------------------
(* Layout of the buffers encode returns *)

HdrWord(b, pos) == Val(SubSeq(b, pos + 1, pos + 8))

\* the index entry at offset base, read straight from the buffer
EntryAt(b, base) ==
    [x_off |-> Val(SubSeq(b, base + 1, base + 8)),  x_len |-> Val(SubSeq(b, base + 9, base + 12)),
     y_off |-> Val(SubSeq(b, base + 13, base + 20)), y_len |-> Val(SubSeq(b, base + 21, base + 24))]

\* every array of the run with its index entry in b: [arr, stride, off, len]
IndexedArrays(run, b) ==
    LET nS == Len(run.spectra)
        nC == Len(run.chromatograms)
    IN  {[id |-> <<"mz", i>>, arr |-> run.spectra[i].mz_array, stride |-> 8,
          off |-> EntryAt(b, H + SI * (i - 1)).x_off,
          len |-> EntryAt(b, H + SI * (i - 1)).x_len] : i \in 1..nS}
        \cup
        {[id |-> <<"int", i>>, arr |-> run.spectra[i].intensity_array, stride |-> 4,
          off |-> EntryAt(b, H + SI * (i - 1)).y_off,
          len |-> EntryAt(b, H + SI * (i - 1)).y_len] : i \in 1..nS}
        \cup
        {[id |-> <<"time", i>>, arr |-> run.chromatograms[i].time_array, stride |-> 8,
          off |-> EntryAt(b, H + SI * nS + CI * (i - 1)).x_off,
          len |-> EntryAt(b, H + SI * nS + CI * (i - 1)).x_len] : i \in 1..nC}
        \cup
        {[id |-> <<"cint", i>>, arr |-> run.chromatograms[i].intensity_array, stride |-> 4,
          off |-> EntryAt(b, H + SI * nS + CI * (i - 1)).y_off,
          len |-> EntryAt(b, H + SI * nS + CI * (i - 1)).y_len] : i \in 1..nC}

Encoded == origin = "encode" /\ IsSome(doc.run)

WellPlaced(a, b) ==
    /\ a.len = Len(a.arr[1])
    /\ a.off % 8 = 0
    /\ a.off >= HdrWord(b, 48)
    /\ a.off + a.len * a.stride <= HdrWord(b, 56)

Disjoint(a, c) == a.off + a.len * a.stride <= c.off \/ c.off + c.len * c.stride <= a.off

\* C7 (as amended): in every buffer encode returns, total_size equals the
\* buffer length, each present non-empty array has an index entry whose offset
\* is a multiple of 8, at least data_offset, with offset + len*stride <=
\* total_size, no two stored arrays overlap, and an absent or empty array has
\* the index entry (0,0).
C7_ArrayPlacement ==
    Encoded =>
        LET A == IndexedArrays(doc.run[1], buf)
            stored(a) == IsSome(a.arr) /\ a.arr[1] # <<>>
        IN /\ HdrWord(buf, 56) = Len(buf)
           /\ HdrWord(buf, 48) <= HdrWord(buf, 56)
           /\ \A a \in A : IF stored(a) THEN WellPlaced(a, buf) ELSE a.off = 0 /\ a.len = 0
           /\ \A a, c \in A : (stored(a) /\ stored(c) /\ a.id # c.id) => Disjoint(a, c)

\* C7 witness: an encoded run with at least three stored arrays, one of them
\* an f32 array of odd length followed by another array, and an empty array
C7_Witness ==
    /\ Encoded
    /\ LET A == IndexedArrays(doc.run[1], buf)
       IN /\ Cardinality({a \in A : a.off # 0}) >= 3
          /\ \E a, c \in A : a.off # 0 /\ a.stride = 4 /\ a.len % 2 = 1 /\ c.off > a.off
          /\ \E a \in A : a.arr = Some(<<>>)

\* C7 (as stated): each present array has an index entry whose offset is a
\* multiple of 8, at least data_offset, ...; an absent array has (0,0)
C7_PresentArrayPlacement ==
    Encoded =>
        LET A == IndexedArrays(doc.run[1], buf)
        IN /\ HdrWord(buf, 56) = Len(buf)
           /\ \A a \in A : IF IsSome(a.arr) THEN WellPlaced(a, buf) ELSE a.off = 0 /\ a.len = 0
           /\ \A a, c \in A : (IsSome(a.arr) /\ IsSome(c.arr) /\ a.id # c.id) => Disjoint(a, c)

-----------------------------------------------------------------------------
(* Round trip of the arrays-only variant: decode(encode_arrays(doc)) *)

SpectraOf(m) == IF IsSome(m.run) THEN m.run[1].spectra ELSE <<>>
ChromatogramsOf(m) == IF IsSome(m.run) THEN m.run[1].chromatograms ELSE <<>>

\* C8: decode(encode_arrays(doc)) succeeds and yields as many spectra and
\* chromatograms as doc has, with the same arrays (an empty array read back as
\* absent) and default metadata: index = i, array_length the length of the
\* stored arrays, all optional metadata absent, an empty id
C8_ArraysRoundTrip ==
    (origin = "encode_arrays" /\ res.tag # "pending") =>
        /\ res.tag = "ok"
        /\ LET inS == SpectraOf(doc)
               inC == ChromatogramsOf(doc)
               out == res.v.run[1]
           IN /\ out.spectra =
                    [i \in 1..Len(inS) |->
                        [DefaultSpectrum(i - 1) EXCEPT
                            !.mz_array = KeptArr(inS[i].mz_array),
                            !.intensity_array = KeptArr(WidenArray(inS[i].intensity_array)),
                            !.array_length = ToU(Max(OptLen(inS[i].mz_array),
                                                     OptLen(inS[i].intensity_array)))]]
              /\ out.chromatograms =
                    [i \in 1..Len(inC) |->
                        [DefaultChromatogram(i - 1) EXCEPT
                            !.time_array = KeptArr(inC[i].time_array),
                            !.intensity_array = KeptArr(WidenArray(inC[i].intensity_array)),
                            !.array_length = ToU(Max(OptLen(inC[i].time_array),
                                                     OptLen(inC[i].intensity_array)))]]

-----------------------------------------------------------------------------
(* The decoder on buffers that did not come straight from the encoder: an   *)
(* encoded buffer is altered in one place before decode sees it.            *)

DocsT ==
    {MzML(NoneV)} \cup
    {MzML(Some(Run(sp, ch))) : sp \in SeqsUpTo(SpectrumKinds, MaxSpecT),
                               ch \in SeqsUpTo(ChromatogramKinds, MaxChromT)}

InitDecode == CodecInit(DocsT)

Patch(b, pos, bytes) ==
    [i \in 1..Len(b) |-> IF i > pos /\ i <= pos + Len(bytes) THEN bytes[i - pos] ELSE b[i]]

Fresh == origin \in {"encode", "encode_arrays"} /\ res.tag = "pending"

Alter(b) ==
    /\ buf' = b
    /\ origin' = "foreign"
    /\ UNCHANGED <<doc, res, buf2, overflow_checks, eic_in, eic_out, ext_vars>>

AllOnes  == <<255, 255, 255, 255, 255, 255, 255, 255>>     \* 2^64 - 1
NearMax4 == <<252, 255, 255, 255, 255, 255, 255, 255>>     \* 2^64 - 4
NearMax8 == <<248, 255, 255, 255, 255, 255, 255, 255>>     \* 2^64 - 8
MaxU32   == <<255, 255, 255, 255>>
MagicX   == <<88, 88, 88, 88>>                             \* "XXXX"

\* the buffer is cut short
Truncate ==
    /\ Fresh
    /\ \E k \in {0, 63, 64, Len(buf) - 1} :
          /\ k >= 0 /\ k < Len(buf)
          /\ Alter(SubSeq(buf, 1, k))

\* another magic; the one alteration that may follow another
SetMagic ==
    /\ res.tag = "pending"
    /\ origin \in {"encode", "encode_arrays", "foreign"}
    /\ Len(buf) >= H
    /\ SubSeq(buf, 1, 4) \in {Magic1, MagicS}
    /\ \E m \in {Magic1, MagicS, MagicX} :
          /\ m # SubSeq(buf, 1, 4)
          /\ origin = "foreign" => m = MagicX
          /\ Alter(Patch(buf, 0, m))

\* another n_spec or n_chrom
SetCount ==
    /\ Fresh
    /\ \E pos \in {4, 8}, n \in 0..2 :
          /\ LE(n, 4) # SubSeq(buf, pos + 1, pos + 4)
          /\ Alter(Patch(buf, pos, LE(n, 4)))

\* other format bytes: every combination of f32 / f64, or one unknown format
SetFormats ==
    /\ Fresh
    /\ \E f \in [1..4 -> {1, 2}] \cup {[<<2, 1, 2, 1>> EXCEPT ![k] = 3] : k \in 1..4} :
          /\ f # SubSeq(buf, 13, 16)
          /\ Alter(Patch(buf, 12, f))

\* another table offset, data_offset or total_size
SetHeaderWord ==
    /\ Fresh
    /\ \E pos \in {16, 24, 32, 40, 48, 56},
          w \in {ToU(0), ToU(Len(buf) + 1), AllOnes, NearMax4, NearMax8} :
          /\ w # SubSeq(buf, pos + 1, pos + 8)
          /\ Alter(Patch(buf, pos, w))

\* another (off, len) in the first entry of an index table
SetArrayEntry ==
    /\ Fresh
    /\ \E t \in {16, 24}, y \in {0, 12},
          off \in {ToU(8), ToU(Len(buf)), NearMax8, AllOnes}, len \in {LE(1, 4), MaxU32} :
          /\ IsSmall(SubSeq(buf, t + 1, t + 8))
          /\ HdrWord(buf, t) >= H
          /\ Alter(Patch(buf, HdrWord(buf, t) + y, off \o len))

\* another (id_off, id_len) in the first chromatogram metadata entry
SetIdEntry ==
    /\ Fresh
    /\ SubSeq(buf, 1, 4) = Magic1
    /\ HdrWord(buf, 40) >= H
    /\ \E off \in {ToU(Len(buf) - 1), ToU(Len(buf)), NearMax8, AllOnes}, len \in {LE(1, 4), MaxU32} :
          Alter(Patch(buf, HdrWord(buf, 40) + 8, off \o len))

\* a byte of a stored chromatogram id that makes it invalid UTF-8
SetIdByte ==
    /\ Fresh
    /\ SubSeq(buf, 1, 4) = Magic1
    /\ HdrWord(buf, 40) >= H
    /\ HdrWord(buf, HdrWord(buf, 40) + 8) > 0
    /\ Alter(Patch(buf, HdrWord(buf, HdrWord(buf, 40) + 8), <<255>>))

DecodeNext ==
    \/ Encode \/ EncodeArrays
    \/ Truncate \/ SetMagic \/ SetCount \/ SetFormats \/ SetHeaderWord
    \/ SetArrayEntry \/ SetIdEntry \/ SetIdByte
    \/ Decode

SpecDecode == InitDecode /\ [][DecodeNext]_vars


\* C3: for any byte buffer decode returns a run or an error and never panics;
\* a table, array or id that extends past the end of the buffer, including
\* when the offset arithmetic overflows, gives an out-of-bounds error
C3_DecodeNeverPanics == res.tag \in {"pending", "ok", "err"}

\* a header that breaks data_offset <= total_size <= buffer length
HeaderInvariantBroken(b) ==
    \/ GtU(SubSeq(b, 49, 56), SubSeq(b, 57, 64))
    \/ GtU(SubSeq(b, 57, 64), ToU(Len(b)))

\* C4: decode rejects with an error every buffer whose header has total_size
\* smaller than data_offset or larger than the buffer
C4_HeaderInvariantChecked ==
    (res.tag # "pending" /\ Len(buf) >= H /\ HeaderInvariantBroken(buf)) => res.tag # "ok"

\* C5: decode returns an error and no run for every buffer shorter than 64
\* bytes and for every buffer of at least 64 bytes whose first four bytes are
\* neither "BIN1" nor "BINS"
C5_ShortOrBadMagicRejected ==
    (res.tag # "pending" /\ (Len(buf) < H \/ SubSeq(buf, 1, 4) \notin {Magic1, MagicS}))
        => res.tag = "err"

\* the arrays of the buffer read with the formats where the layout puts them:
\* byte 12 spectrum x, 13 spectrum y, 14 chromatogram x, 15 chromatogram y
ArraysAsLaidOut(bin, h) ==
    ReadArrayLoops(bin,
                   ArrayLoops([h EXCEPT !.sx = bin[13], !.sy = bin[14], !.cx = bin[15], !.cy = bin[16]],
                              ReadTable(bin, h.s_idx_off, h.n_spec, "index", "spec index").v,
                              ReadTable(bin, h.c_idx_off, h.n_ch, "index", "chrom index").v),
                   <<>>)

SameArrays(run, r) ==
    /\ r.tag = "ok"
    /\ \A i \in 1..Len(run.spectra) :
          run.spectra[i].mz_array = r.v[1][i] /\ run.spectra[i].intensity_array = r.v[2][i]
    /\ \A i \in 1..Len(run.chromatograms) :
          run.chromatograms[i].time_array = r.v[3][i]
          /\ run.chromatograms[i].intensity_array = r.v[4][i]

\* C6: the arrays decode returns are the stored arrays converted from the
\* format in header byte 12 (spectrum x), 13 (spectrum y), 14 (chromatogram x)
\* and 15 (chromatogram y), for every combination of the four format bytes
C6_FormatBytesAsLaidOut ==
    res.tag = "ok" => SameArrays(res.v.run[1], ArraysAsLaidOut(buf, DecodeHeader(buf)))

-----------------------------------------------------------------------------
(* The EIC engine.  An f64 is modelled by an integer number of units chosen *)
(* so that every value and every sum below is exact; NaN stands for a NaN   *)
(* and PosInf for +infinity.                                                *)

NaN == 0 - 1000

\* +infinity: greater than every value used, and not finite
PosInf == 1000000000

is_nan(x) == x = NaN
is_finite(x) == x # NaN /\ x # PosInf
\* comparisons are false when an operand is NaN
FLt(a, b) == ~is_nan(a) /\ ~is_nan(b) /\ a < b
FLe(a, b) == ~is_nan(a) /\ ~is_nan(b) /\ a <= b
FGt(a, b) == ~is_nan(a) /\ ~is_nan(b) /\ a > b
\* f64::max: a NaN operand is ignored
FMax(a, b) == IF is_nan(a) THEN b ELSE IF is_nan(b) THEN a ELSE Max(a, b)

\* a + b and a - b; the subtrahend is never +infinity here
FAdd(a, b) ==
    IF is_nan(a) \/ is_nan(b) THEN NaN ELSE IF a = PosInf \/ b = PosInf THEN PosInf ELSE a + b
FSub(a, b) == IF is_nan(a) \/ is_nan(b) THEN NaN ELSE IF a = PosInf THEN PosInf ELSE a - b

\* ppm_tolerance values are multiples of PpmUnit / 2, so (ppm * 1e-6) * center
\* is an integer for the even centers used
PpmUnit == 1000000

\* the fields of a SpectrumSummary the EIC engine reads
EicSpectrum(lvl, rt, mz, inten) ==
    [ms_level |-> lvl, retention_time |-> rt, mz_array |-> mz, intensity_array |-> inten]

CentroidScan(rt, mz, inten) == [rt |-> rt, mz |-> mz, intensity |-> inten]

RECURSIVE FinitePairs(_, _, _, _, _)
\* lines 128-138: the pairs i < len with both members finite, from i on
FinitePairs(mzs_src, ints_src, len, i, acc) ==
    IF i >= len THEN acc
    ELSE FinitePairs(mzs_src, ints_src, len, i + 1,
                     IF is_finite(mzs_src[i + 1]) /\ is_finite(ints_src[i + 1])
                     THEN CentroidScan(acc.rt, Append(acc.mz, mzs_src[i + 1]),
                                       Append(acc.intensity, ints_src[i + 1]))
                     ELSE acc)

\* lines 114-121
Selected(s, tw) ==
    /\ s.ms_level = Some(1)
    /\ IsSome(s.retention_time)
    /\ FLe(tw.from, s.retention_time[1]) /\ FLe(s.retention_time[1], tw.to)
    /\ IsSome(s.mz_array) /\ s.mz_array[1] # <<>>
    /\ IsSome(s.intensity_array) /\ s.intensity_array[1] # <<>>

\* lines 122-138: the scan built from a selected spectrum
ScanOf(s) ==
    FinitePairs(s.mz_array[1], s.intensity_array[1],
                Min(Len(s.mz_array[1]), Len(s.intensity_array[1])), 0,
                CentroidScan(s.retention_time[1], <<>>, <<>>))

\* lines 139-145: a scan is pushed when a pair is left
PushScan(scans, c) == IF c.mz # <<>> THEN Append(scans, c) ELSE scans

RECURSIVE CollectFrom(_, _, _)
\* the loop over run.spectra (lines 113-147)
CollectFrom(spectra, tw, scans) ==
    IF spectra = <<>> THEN scans
    ELSE CollectFrom(Tail(spectra), tw,
                     IF Selected(Head(spectra), tw) THEN PushScan(scans, ScanOf(Head(spectra)))
                     ELSE scans)

RECURSIVE InsertByRt(_, _)
\* s put after every scan whose rt is not greater (partial_cmp, Equal for NaN)
InsertByRt(sorted, s) ==
    IF sorted = <<>> THEN <<s>>
    ELSE IF FGt(sorted[Len(sorted)].rt, s.rt)
         THEN Append(InsertByRt(SubSeq(sorted, 1, Len(sorted) - 1), s), sorted[Len(sorted)])
         ELSE Append(sorted, s)

RECURSIVE SortFrom(_, _)
SortFrom(scans, sorted) ==
    IF scans = <<>> THEN sorted ELSE SortFrom(Tail(scans), InsertByRt(sorted, Head(scans)))

\* a collector that leaves the scans in document order
sort_by_rt_Unsorted(scans) == scans

\* scans.sort_by(|a, b| a.rt.partial_cmp(&b.rt).unwrap_or(Equal)): a stable sort
sort_by_rt(scans) == SortFrom(scans, <<>>)

\* lines 159-160
TimesAndScans(scans) == [rt |-> Field(scans, "rt"), scans |-> scans]

\* collect_ms1_scans(mzml, time_window)
collect_ms1_scans(mzml, tw) ==
    TimesAndScans(sort_by_rt(CollectFrom(IF IsSome(mzml.run) THEN mzml.run[1].spectra ELSE <<>>,
                                         tw, <<>>)))

RECURSIVE UpperLoop(_, _, _, _)
UpperLoop(a, x, lo, hi) ==
    IF lo < hi
    THEN IF FLe(a[(lo + hi) \div 2 + 1], x) THEN UpperLoop(a, x, (lo + hi) \div 2 + 1, hi)
         ELSE UpperLoop(a, x, lo, (lo + hi) \div 2)
    ELSE lo

\* upper_bound(a, x): the first index whose element is greater than x
upper_bound(a, x) == UpperLoop(a, x, 0, Len(a))

RECURSIVE LowerLoop(_, _, _, _)
LowerLoop(a, x, lo, hi) ==
    IF lo < hi
    THEN IF FLt(a[(lo + hi) \div 2 + 1], x) THEN LowerLoop(a, x, (lo + hi) \div 2 + 1, hi)
         ELSE LowerLoop(a, x, lo, (lo + hi) \div 2)
    ELSE lo

\* a search that skips the elements equal to x
lower_bound_Exclusive(a, x) == upper_bound(a, x)

\* lower_bound(a, x): the first index whose element is not less than x
lower_bound(a, x) == LowerLoop(a, x, 0, Len(a))

RECURSIVE Walk(_, _, _, _, _)
\* the inner loop of compute_eic_for_mz (lines 87-101); its guard of 5,000,000
\* iterations cannot trip on the arrays used here
Walk(mzs, ints, j, hi, acc) ==
    IF j < Len(mzs)
    THEN IF FGt(mzs[j + 1], hi) THEN acc ELSE Walk(mzs, ints, j + 1, hi, acc + ints[j + 1])
    ELSE acc

\* lines 68-72
TolPpm(center, opts) ==
    IF FGt(opts.ppm_tolerance, 0)
    THEN IF is_finite(center) THEN (opts.ppm_tolerance * center) \div PpmUnit ELSE center
    ELSE 0

\* line 73
EicTol(center, opts) == FMax(TolPpm(center, opts), FMax(opts.mz_tolerance, 0))

\* lines 77-104, for a valid tol
EicValues(scans, rt_len, lo, hi) ==
    [i \in 1..rt_len |->
        IF i <= Len(scans)
        THEN Walk(scans[i].mz, scans[i].intensity, lower_bound(scans[i].mz, lo), hi, 0)
        ELSE 0]

\* lines 74-104
EicWithTol(scans, rt_len, center, tol) ==
    IF ~is_finite(tol) \/ tol <= 0 THEN Panic("invalid EIC tol")
    ELSE Ok(EicValues(scans, rt_len, center - tol, center + tol))

\* compute_eic_for_mz(scans, rt_len, center, opts)
compute_eic_for_mz(scans, rt_len, center, opts) ==
    EicWithTol(scans, rt_len, center, EicTol(center, opts))

Eic(x, y) == [x |-> x, y |-> y]

\* lines 45-52
EicOf(c, center, opts) ==
    IF c.scans = <<>> \/ c.rt = <<>> THEN Ok(Eic(<<>>, <<>>))
    ELSE Then(compute_eic_for_mz(c.scans, Len(c.rt), center, opts), LAMBDA y : Ok(Eic(c.rt, y)))

\* calculate_eic_from_mzml(mzml, target_mass, from_to, options)
calculate_eic_from_mzml(mzml, target_mass, from_to, options) ==
    EicOf(collect_ms1_scans(mzml, from_to), target_mass, options)

\* The spectra the requests are made of: MS1 scans at three retention times
\* with m/z on, inside and outside the window bounds, repeated m/z, unsorted
\* m/z, non-finite members, unequal lengths, and spectra that are not collected
EicSpectrumKinds ==
    { EicSpectrum(Some(1), Some(2), Some(<<1, 2, 3, 4>>), Some(<<1, 2, 4, 8>>)),
      EicSpectrum(Some(1), Some(1), Some(<<3, 3, 5, 6>>), Some(<<16, 32, 64, 128>>)),
      EicSpectrum(Some(1), Some(3), Some(<<1, NaN, 3, 5>>), Some(<<1, 2, NaN, 4>>)),
      EicSpectrum(Some(1), Some(1), Some(<<7, 8>>), Some(<<1>>)),
      EicSpectrum(Some(1), Some(2), Some(<<4, 2, 3>>), Some(<<1, 2, 4>>)),
      EicSpectrum(Some(1), Some(2), Some(<<NaN>>), Some(<<1>>)),
      EicSpectrum(Some(1), Some(6), Some(<<2>>), Some(<<1>>)),
      EicSpectrum(Some(1), Some(NaN), Some(<<2>>), Some(<<1>>)),
      EicSpectrum(Some(1), NoneV, Some(<<2>>), Some(<<1>>)),
      EicSpectrum(Some(2), Some(1), Some(<<2>>), Some(<<1>>)),
      EicSpectrum(Some(1), Some(2), Some(<<>>), NoneV) }

FromTo(from, to) == [from |-> from, to |-> to]
EicOptions(ppm, tol) == [ppm_tolerance |-> ppm, mz_tolerance |-> tol]

EicRequests ==
    [mzml : {[run |-> NoneV]} \cup {[run |-> Some([spectra |-> sp])] : sp \in SeqsUpTo(EicSpectrumKinds, MaxScans)},
     target_mass : {2, 4},
     from_to : {FromTo(0, 3), FromTo(2, 2), FromTo(NaN, 3)},
     options : {EicOptions(0, 1), EicOptions(PpmUnit \div 2, 0), EicOptions(0 - PpmUnit, 2),
                EicOptions(0, 0), EicOptions(NaN, NaN)}]

InitEic ==
    /\ doc = MzML(NoneV)
    /\ buf = <<>>
    /\ origin = "none"
    /\ res = Pending
    /\ buf2 = <<>>
    /\ overflow_checks = TRUE
    /\ eic_in \in EicRequests
    /\ eic_out = Pending
    /\ ExtIdle

\* eic = calculate_eic_from_mzml(&mzml, &target, from_to, options)
CalculateEic ==
    /\ eic_in # <<>>
    /\ eic_out.tag = "pending"
    /\ eic_out' = calculate_eic_from_mzml(eic_in.mzml, eic_in.target_mass, eic_in.from_to,
                                          eic_in.options)
    /\ UNCHANGED <<doc, buf, origin, res, buf2, overflow_checks, eic_in, ext_vars>>

EicNext == CalculateEic

SpecEic == InitEic /\ [][EicNext]_vars

-----------------------------------------------------------------------------
(* Properties of the EIC *)

RECURSIVE SumOver(_, _)
\* the sum of ints[j] over the indices j in J
SumOver(ints, J) ==
    IF J = {} THEN 0
    ELSE ints[CHOOSE j \in J : TRUE] + SumOver(ints, J \ {CHOOSE j \in J : TRUE})

Ascending(a) == \A i \in 1..(Len(a) - 1) : a[i] <= a[i + 1]

InWindow(mz, m, tol) == {j \in 1..Len(mz) : m - tol <= mz[j] /\ mz[j] <= m + tol}

\* the scans the request collects and its tolerance
EicScans == collect_ms1_scans(eic_in.mzml, eic_in.from_to).scans
EicTolerance == EicTol(eic_in.target_mass, eic_in.options)

\* C9: for every collected MS1 scan i whose m/z array is sorted ascending, and
\* a target m with tolerance tol > 0, y[i] is the sum of intensity[j] over
\* exactly the j with m - tol <= mz[j] <= m + tol; a scan with no m/z in the
\* window has y[i] = 0
C9_EicWindowSum ==
    (eic_out.tag # "pending" /\ EicScans # <<>> /\ EicTolerance > 0) =>
        /\ eic_out.tag = "ok"
        /\ Len(eic_out.v.y) = Len(EicScans)
        /\ \A i \in 1..Len(EicScans) :
              Ascending(EicScans[i].mz) =>
                  eic_out.v.y[i] = SumOver(EicScans[i].intensity,
                                           InWindow(EicScans[i].mz, eic_in.target_mass, EicTolerance))

\* C9 witness: an EIC over two scans, one with m/z exactly on both window
\* bounds and one outside, the other with no m/z in the window
C9_Witness ==
    /\ eic_out.tag = "ok"
    /\ Len(EicScans) = 2
    /\ \E i \in 1..2 :
          /\ Ascending(EicScans[i].mz)
          /\ \E j, k, l \in 1..Len(EicScans[i].mz) :
                /\ EicScans[i].mz[j] = eic_in.target_mass - EicTolerance
                /\ EicScans[i].mz[k] = eic_in.target_mass + EicTolerance
                /\ EicScans[i].mz[l] > eic_in.target_mass + EicTolerance
          /\ eic_out.v.y[i] > 0
    /\ \E i \in 1..2 : Ascending(EicScans[i].mz) /\ eic_out.v.y[i] = 0

\* the spectra of the request
EicSpectra == IF IsSome(eic_in.mzml.run) THEN eic_in.mzml.run[1].spectra ELSE <<>>

\* an MS1 spectrum in the time window with both arrays non-empty and a finite
\* (m/z, intensity) pair
Collected(s) ==
    /\ s.ms_level = Some(1)
    /\ IsSome(s.retention_time) /\ s.retention_time[1] # NaN
    /\ eic_in.from_to.from # NaN /\ eic_in.from_to.to # NaN
    /\ eic_in.from_to.from <= s.retention_time[1] /\ s.retention_time[1] <= eic_in.from_to.to
    /\ IsSome(s.mz_array) /\ IsSome(s.intensity_array)
    /\ \E j \in 1..Min(Len(s.mz_array[1]), Len(s.intensity_array[1])) :
          s.mz_array[1][j] # NaN /\ s.intensity_array[1][j] # NaN

CollectedIndices == {i \in 1..Len(EicSpectra) : Collected(EicSpectra[i])}

\* C10: what calculate_eic_from_mzml returns has x and y of equal length, one
\* entry per collected MS1 scan (x holding the scans' retention times), x in
\* non-decreasing order; with no MS1 scan in the window it returns empty x
\* and y
C10_EicShape ==
    /\ eic_out.tag = "ok" =>
          /\ Len(eic_out.v.x) = Len(eic_out.v.y)
          /\ Len(eic_out.v.x) = Cardinality(CollectedIndices)
          /\ Ascending(eic_out.v.x)
          /\ \A t \in {eic_out.v.x[i] : i \in 1..Len(eic_out.v.x)}
                       \cup {EicSpectra[i].retention_time[1] : i \in CollectedIndices} :
                Cardinality({i \in 1..Len(eic_out.v.x) : eic_out.v.x[i] = t})
                = Cardinality({i \in CollectedIndices : EicSpectra[i].retention_time[1] = t})
    /\ (eic_out.tag # "pending" /\ CollectedIndices = {}) => eic_out = Ok(Eic(<<>>, <<>>))
    /\ (eic_out.tag # "pending" /\ EicTolerance > 0) => eic_out.tag = "ok"

\* C10 witness: an EIC returned for two scans collected out of retention-time
\* order
C10_Witness ==
    /\ eic_out.tag = "ok"
    /\ Len(eic_out.v.x) = 2
    /\ \E i, j \in CollectedIndices :
          i < j /\ EicSpectra[i].retention_time[1] > EicSpectra[j].retention_time[1]

-----------------------------------------------------------------------------
(* Properties of collect_ms1_scans *)

\* a spectrum with ms_level 1, retention time in [from, to], both arrays
\* present and non-empty, and arrays of equal length
EqualLengthMs1(s) ==
    /\ s.ms_level = Some(1)
    /\ IsSome(s.retention_time) /\ s.retention_time[1] # NaN
    /\ eic_in.from_to.from # NaN /\ eic_in.from_to.to # NaN
    /\ eic_in.from_to.from <= s.retention_time[1] /\ s.retention_time[1] <= eic_in.from_to.to
    /\ IsSome(s.mz_array) /\ IsSome(s.intensity_array)
    /\ s.mz_array[1] # <<>> /\ s.intensity_array[1] # <<>>
    /\ Len(s.mz_array[1]) = Len(s.intensity_array[1])

EqualLengthIndices == {i \in 1..Len(EicSpectra) : EqualLengthMs1(EicSpectra[i])}

\* C11: collect_ms1_scans yields a scan for a spectrum if and only if its
\* ms_level is 1, its retention time lies in [from, to], both arrays are
\* present and non-empty and of equal length; a kept scan holds exactly the
\* (m/z, intensity) pairs of its spectrum whose members are both finite
C11_ScanIffEqualLength ==
    eic_out.tag # "pending" =>
        /\ Len(EicScans) = Cardinality(EqualLengthIndices)
        /\ \A t \in {EicScans[k].rt : k \in 1..Len(EicScans)} :
              Cardinality({k \in 1..Len(EicScans) : EicScans[k].rt = t})
              = Cardinality({i \in EqualLengthIndices : EicSpectra[i].retention_time[1] = t})
        /\ \A k \in 1..Len(EicScans) :
              /\ Len(EicScans[k].mz) = Len(EicScans[k].intensity)
              /\ \A j \in 1..Len(EicScans[k].mz) :
                    EicScans[k].mz[j] # NaN /\ EicScans[k].intensity[j] # NaN

-----------------------------------------------------------------------------
(* Properties of the EIC tolerance *)

\* C16: with tol = max(ppm_tolerance * 1e-6 * m, mz_tolerance), an EIC
\* computation succeeds when tol > 0, and when tol <= 0 it returns an error
\* value to the caller, with no intensity vector
C16_InvalidToleranceIsError ==
    eic_out.tag # "pending" =>
        IF EicTolerance > 0 THEN eic_out.tag = "ok" ELSE eic_out.tag = "err"

-----------------------------------------------------------------------------
(* get_peak, get_peaks_from_eic and get_peaks_from_chrom.  Values are the   *)
(* exact integers of the EIC engine, with m/z in units of 0.005.            *)

\* Peak::default()
DefaultPeak ==
    [from |-> 0, to |-> 0, rt |-> 0, integral |-> 0, intensity |-> 0, ratio |-> 0, np |-> 0,
     noise |-> 0]

DataXY(x, y) == [x |-> x, y |-> y]
Roi(rt, window) == [rt |-> rt, window |-> window]
\* an EicRoi and a ChromRoi, as records of one shape
EicRoi(id, rt, mz, window) == [id |-> id, idx |-> 0, rt |-> rt, mz |-> mz, window |-> window]
ChromRoi(id, idx, rt, window) == [id |-> id, idx |-> idx, rt |-> rt, mz |-> 0, window |-> window]

DEFAULT_WINDOW_SIZES == <<5, 7, 9, 11, 13, 15, 17, 19, 21, 23, 25, 27, 29, 31, 33>>

series_len(data) == Min(Len(data.x), Len(data.y))

\* get_peak.rs 16-22
odd_at_most(ws, n) ==
    IF n < 5 \/ ws < 5 \/ ws > n THEN NoneV
    ELSE IF ws % 2 = 0 THEN Some(ws - 1) ELSE Some(ws)

RECURSIVE WindowSizes(_, _, _)
\* get_peak.rs 84-89: the window sizes that fit a series of n points
WindowSizes(wss, n, sizes) ==
    IF wss = <<>> THEN sizes
    ELSE WindowSizes(Tail(wss), n, sizes \o odd_at_most(Head(wss), n))

\* get_peak_across_windows(data, roi, options, window_sizes), for a series
\* that no window size fits (lines 71-92): the scan over the window sizes
\* (lines 94-357) needs a series of at least 5 points
get_peak_across_windows(data, roi, options, wss) ==
    CASE series_len(data) < 3 -> NoneV
      [] series_len(data) >= 3 /\ WindowSizes(wss, series_len(data), <<>>) = <<>> -> NoneV

get_peak(data, roi, options) == get_peak_across_windows(data, roi, options, DEFAULT_WINDOW_SIZES)

\* the peak of an Option<Peak>, Peak::default() for None
PeakOrDefault(p) == IF IsSome(p) THEN p[1] ELSE DefaultPeak

\* get_peaks_from_eic.rs 61-75
EicPeakOf(roi, eic, options) ==
    IF Len(eic.x) < 3 \/ Len(eic.x) # Len(eic.y)
    THEN Ok(<<roi.id, roi.rt, roi.mz, DefaultPeak>>)
    ELSE Ok(<<roi.id, roi.rt, roi.mz,
              PeakOrDefault(get_peak(DataXY(eic.x, eic.y), Roi(roi.rt, roi.window), options))>>)

\* get_peaks_from_eic.rs 57-60: an Err is replaced by the default peak, a
\* panic of calculate_eic_from_mzml unwinds through compute_one
EicPeakFrom(roi, e, options) ==
    IF e.tag = "err" THEN Ok(<<roi.id, roi.rt, roi.mz, DefaultPeak>>)
    ELSE Then(e, LAMBDA eic : EicPeakOf(roi, eic, options))

\* get_peaks_from_eic.rs 47-56: tolerances 20 ppm and 0.005 (one unit)
EicPeakIn(mzml, roi, l, r, options) ==
    EicPeakFrom(roi,
                calculate_eic_from_mzml(mzml, roi.mz, IF FLe(l, r) THEN FromTo(l, r) ELSE FromTo(r, l),
                                        EicOptions(20, 1)),
                options)

\* compute_one of get_peaks_from_eic.rs
eic_compute_one(mzml, from_to, roi, options) ==
    EicPeakIn(mzml, roi, FSub(roi.rt, from_to.from), FAdd(roi.rt, from_to.to), options)

RECURSIVE trim_end(_)
\* str::trim_end on an id given as its bytes: trailing spaces are removed
trim_end(s) == IF s # <<>> /\ s[Len(s)] = 32 THEN trim_end(SubSeq(s, 1, Len(s) - 1)) ELSE s

\* get_peaks_from_chrom.rs 70-79
ChromResult(ch_index, ch_id, roi, p) ==
    <<ch_index, trim_end(ch_id), roi.rt, p.rt, p.from, p.to, p.intensity, p.integral>>

\* compute_one of get_peaks_from_chrom.rs: the five values stay 0.0 unless
\* get_peak returns a peak
chrom_compute_one(ch_index, ch_id, x, y, roi, options) ==
    IF Len(x) >= 3 /\ Len(x) = Len(y)
    THEN ChromResult(ch_index, ch_id, roi,
                     PeakOrDefault(get_peak(DataXY(x, y), Roi(roi.rt, roi.window), options)))
    ELSE ChromResult(ch_index, ch_id, roi, DefaultPeak)

\* get_peaks_from_chrom.rs 25-30
ChromPeakOf(ch, roi, options) ==
    IF IsSome(ch.time_array) /\ IsSome(ch.intensity_array)
    THEN chrom_compute_one(ch.index, ch.id, ch.time_array[1], ch.intensity_array[1], roi, options)
    ELSE chrom_compute_one(ch.index, ch.id, <<>>, <<>>, roi, options)

\* the closure f of get_peaks_from_chrom (lines 17-31)
chrom_task(chroms, roi, options) ==
    IF FLe(roi.window, 0) \/ ~is_finite(roi.rt)
    THEN Ok(<<roi.idx, roi.id, roi.rt, 0, 0, 0, 0, 0>>)
    ELSE IF roi.idx >= Len(chroms)
    THEN Ok(<<roi.idx, roi.id, roi.rt, 0, 0, 0, 0, 0>>)
    ELSE Ok(ChromPeakOf(chroms[roi.idx + 1], roi, options))

\* bound: the largest cores value of a call
MaxCores == 2
\* bound: the most items of a call
MaxItems == 3

\* the documents of the calls: no run; a run without spectra; a run with
\* three MS1 scans; a run whose only spectrum is MS2
PoolChromatogram(index, id, t, inten) ==
    [index |-> index, id |-> id, time_array |-> t, intensity_array |-> inten]
PoolRun(spectra, chromatograms) == [spectra |-> spectra, chromatograms |-> chromatograms]

PoolDocs ==
    { [run |-> NoneV],
      [run |-> Some(PoolRun(<<>>, <<PoolChromatogram(0, <<84, 73, 67, 32>>, Some(<<1, 2, 3>>),
                                                     Some(<<1, 5, 1>>))>>))],
      [run |-> Some(PoolRun(<<EicSpectrum(Some(1), Some(2), Some(<<1, 2, 3, 4>>), Some(<<1, 2, 4, 8>>)),
                              EicSpectrum(Some(1), Some(1), Some(<<3, 3, 5, 6>>), Some(<<16, 32, 64, 128>>)),
                              EicSpectrum(Some(1), Some(3), Some(<<2, 7>>), Some(<<1, 1>>))>>,
                            <<PoolChromatogram(7, <<66>>, Some(<<1, 2, 3, 4>>), Some(<<1, 5, 5, 1>>)),
                              PoolChromatogram(8, <<67>>, Some(<<1, 2, 3>>), NoneV)>>))],
      [run |-> Some(PoolRun(<<EicSpectrum(Some(2), Some(1), Some(<<2>>), Some(<<1>>))>>,
                            <<PoolChromatogram(0, <<68>>, Some(<<1, 2, 3>>), Some(<<1, 2>>))>>))] }

\* the items of a get_peaks_from_eic call: two targets, and one whose m/z is
\* +infinity
EicItemKinds ==
    { EicRoi(<<97>>, 2, 2, 1), EicRoi(<<98>>, 1, 4, 1), EicRoi(<<99>>, 2, PosInf, 1) }

\* the items of a get_peaks_from_chrom call: the first and the second
\* chromatogram, an index past the end, a zero window and a NaN time
ChromItemKinds ==
    { ChromRoi(<<97>>, 0, 2, 1), ChromRoi(<<98>>, 1, 2, 1), ChromRoi(<<>>, 5, 0, 0),
      ChromRoi(<<100>>, 0, 2, 0), ChromRoi(<<101>>, 0, NaN, 1) }
\* The calls.  get_peaks_from_eic is handed bytes, which stand here as what
\* decode returns on them; get_peaks_from_chrom is handed the document.
DecodeFailed == [tag |-> "err", v |-> [run |-> NoneV], msg |-> "decode"]

PeaksCalls ==
    [fn : {"eic"}, mzml : {Ok(d) : d \in PoolDocs} \cup {DecodeFailed},
     from_to : {FromTo(1, 1), FromTo(3, 0 - 4)}, items : SeqsUpTo(EicItemKinds, MaxItems),
     options : {NoneV}, cores : 0..MaxCores]
    \cup
    [fn : {"chrom"}, mzml : {Ok(d) : d \in PoolDocs},
     from_to : {FromTo(0, 0)}, items : SeqsUpTo(ChromItemKinds, MaxItems),
     options : {NoneV}, cores : 0..MaxCores]

\* decode(bytes).ok()? (get_peaks_from_eic.rs 21) and mzml.run.as_ref()?
\* (get_peaks_from_chrom.rs 16)
HasDocument(in) == in.mzml.tag = "ok" /\ (in.fn = "chrom" => IsSome(in.mzml.v.run))

\* the task of one item
ComputeItem(in, roi) ==
    IF in.fn = "eic" THEN eic_compute_one(in.mzml.v, in.from_to, roi, in.options)
    ELSE chrom_task(in.mzml.v.run[1].chromatograms, roi, in.options)

RECURSIVE RunInOrder(_, _, _)
\* the sequential loop (get_peaks_from_eic.rs 23-27, get_peaks_from_chrom.rs
\* 33): the items from the k-th on, in order; a panic ends the loop
RunInOrder(in, k, out) ==
    IF k > Len(in.items) THEN Ok(Some(out))
    ELSE Then(ComputeItem(in, in.items[k]), LAMBDA r : RunInOrder(in, k + 1, Append(out, r)))

Running == [tag |-> "running", v |-> Zeros(8), msg |-> ""]
\* the pool: where the call is, the result slot of each item, and the items
\* in the order their tasks finished
PoolAt(pc, slots, order) == [pc |-> pc, slots |-> slots, order |-> order]

\* the results in the order the tasks finished
collect_into_vec_AsFinished(slots, order) == [k \in 1..Len(order) |-> slots[order[k]].v]

\* .collect() of an indexed parallel iterator: result i is the one of item i,
\* whatever the order the tasks finished in
collect_into_vec(slots, order) == [i \in 1..Len(slots) |-> slots[i].v]

InitPool ==
    /\ doc = MzML(NoneV)
    /\ buf = <<>>
    /\ origin = "none"
    /\ res = Pending
    /\ buf2 = <<>>
    /\ overflow_checks = TRUE
    /\ eic_in = <<>>
    /\ eic_out = Pending
    /\ pk_in \in PeaksCalls
    /\ pool = PoolAt("start", <<>>, <<>>)
    /\ pk_out = Pending
    /\ ffi = <<>>
    /\ fp_in = <<>>
    /\ fp_out = Pending
    /\ ff_in = <<>>
    /\ ff_out = Pending
    /\ pd_in = <<>>
    /\ pd_out = Pending

\* the call returns None: the bytes do not decode, or the document has no run
PeaksNoDocument ==
    /\ pool.pc = "start"
    /\ ~HasDocument(pk_in)
    /\ pk_out' = Ok(NoneV)
    /\ pool' = PoolAt("done", <<>>, <<>>)
    /\ UNCHANGED <<codec_vars, eic_vars, pk_in, ffi, fp_in, fp_out, ff_in, ff_out, pd_in, pd_out>>

\* cores <= 1 || items.len() < 2: the items are computed in order by the caller
PeaksSequential ==
    /\ pool.pc = "start"
    /\ HasDocument(pk_in)
    /\ pk_in.cores <= 1 \/ Len(pk_in.items) < 2
    /\ pk_out' = RunInOrder(pk_in, 1, <<>>)
    /\ pool' = PoolAt("done", <<>>, <<>>)
    /\ UNCHANGED <<codec_vars, eic_vars, pk_in, ffi, fp_in, fp_out, ff_in, ff_out, pd_in, pd_out>>

\* ThreadPoolBuilder::new().num_threads(cores).build().ok()?: the pool is
\* built, or the threads cannot be spawned and the call returns None
BuildPool ==
    /\ pool.pc = "start"
    /\ HasDocument(pk_in)
    /\ pk_in.cores > 1 /\ Len(pk_in.items) >= 2
    /\ \E built \in BOOLEAN :
          IF built
          THEN /\ pool' = PoolAt("par", [i \in 1..Len(pk_in.items) |-> Pending], <<>>)
               /\ pk_out' = pk_out
          ELSE /\ pool' = PoolAt("done", <<>>, <<>>)
               /\ pk_out' = Ok(NoneV)
    /\ UNCHANGED <<codec_vars, eic_vars, pk_in, ffi, fp_in, fp_out, ff_in, ff_out, pd_in, pd_out>>

\* a worker of the pool takes (or steals) the task of an item nobody has taken
StartTask ==
    /\ pool.pc = "par"
    /\ Cardinality({j \in 1..Len(pool.slots) : pool.slots[j].tag = "running"}) < pk_in.cores
    /\ \E i \in 1..Len(pool.slots) :
          /\ pool.slots[i].tag = "pending"
          /\ pool' = PoolAt("par", [pool.slots EXCEPT ![i] = Running], pool.order)
    /\ UNCHANGED <<codec_vars, eic_vars, pk_in, pk_out, ffi, fp_in, fp_out, ff_in, ff_out, pd_in, pd_out>>

\* the worker finishes the task: the result goes to the item's own place in
\* the collected vector, a panic is kept for the caller
FinishTask ==
    /\ pool.pc = "par"
    /\ \E i \in 1..Len(pool.slots) :
          /\ pool.slots[i].tag = "running"
          /\ pool' = PoolAt("par", [pool.slots EXCEPT ![i] = ComputeItem(pk_in, pk_in.items[i])],
                             Append(pool.order, i))
    /\ UNCHANGED <<codec_vars, eic_vars, pk_in, pk_out, ffi, fp_in, fp_out, ff_in, ff_out, pd_in, pd_out>>

\* pool.install returns: every task is done, or a task panicked and the
\* panic is resumed in the caller once no task runs
Collect ==
    /\ pool.pc = "par"
    /\ \A i \in 1..Len(pool.slots) : pool.slots[i].tag # "running"
    /\ \/ /\ \E i \in 1..Len(pool.slots) : pool.slots[i].tag = "panic"
          /\ pk_out' = pool.slots[CHOOSE i \in 1..Len(pool.slots) : pool.slots[i].tag = "panic"]
       \/ /\ \A i \in 1..Len(pool.slots) : pool.slots[i].tag = "ok"
          /\ pk_out' = Ok(Some(collect_into_vec(pool.slots, pool.order)))
    /\ pool' = PoolAt("done", pool.slots, pool.order)
    /\ UNCHANGED <<codec_vars, eic_vars, pk_in, ffi, fp_in, fp_out, ff_in, ff_out, pd_in, pd_out>>

PoolNext ==
    \/ PeaksNoDocument
    \/ PeaksSequential
    \/ BuildPool
    \/ StartTask
    \/ FinishTask
    \/ Collect

SpecPool == InitPool /\ [][PoolNext]_vars

-----------------------------------------------------------------------------
(* Properties of the peaks calls *)

\* result r is the result of item roi: it carries the item's id (the
\* chromatogram's id for a chromatogram that was looked at) and the item's rt
BelongsTo(in, r, roi) ==
    IF in.fn = "eic" THEN r[1] = roi.id /\ r[2] = roi.rt /\ r[3] = roi.mz
    ELSE r[3] = roi.rt /\ r = ComputeItem(in, roi).v

\* the vector a call returned has one result per item, result i belonging to
\* item i, and is the vector the sequential loop returns
InItemOrder ==
    /\ pk_out.tag = "ok" /\ IsSome(pk_out.v)
    /\ Len(pk_out.v[1]) = Len(pk_in.items)
    /\ \A i \in 1..Len(pk_in.items) : BelongsTo(pk_in, pk_out.v[1][i], pk_in.items[i])
    /\ RunInOrder(pk_in, 1, <<>>) = pk_out

\* the call returned None
ReturnedNone == pk_out.tag = "ok" /\ pk_out.v = NoneV

-----------------------------------------------------------------------------
(* Properties of a panicking task *)

\* the items of the call whose task panics
PanickingItems ==
    {i \in 1..Len(pk_in.items) : ComputeItem(pk_in, pk_in.items[i]).tag = "panic"}

\* C13: when the task of one item panics, the panic is caught for that task
\* only: the call still returns a vector, and the result of every item whose
\* task does not panic is in it
C13_TaskPanicIsContained ==
    (pk_out.tag # "pending" /\ HasDocument(pk_in) /\ ~ReturnedNone) =>
        /\ pk_out.tag = "ok"
        /\ \A i \in 1..Len(pk_in.items) \ PanickingItems :
              \E k \in 1..Len(pk_out.v[1]) :
                  pk_out.v[1][k] = ComputeItem(pk_in, pk_in.items[i]).v

-----------------------------------------------------------------------------
(* Real numbers of the peak picking code.  A value is the pair <<n, d>> of  *)
(* an exact fraction n / d in lowest terms with d > 0; <<1, 0>> is          *)
(* +infinity, <<-1, 0>> is -infinity and <<0, 0>> is NaN.  The rounding of  *)
(* f32 and f64 is not modelled: the series used have small integer values.  *)

RECURSIVE GCD(_, _)
GCD(a, b) == IF b = 0 THEN a ELSE GCD(b, a % b)

Abs(n) == IF n < 0 THEN 0 - n ELSE n
Sgn(n) == IF n < 0 THEN 0 - 1 ELSE IF n > 0 THEN 1 ELSE 0

\* n / d in lowest terms, for d >= 0 and a divisor g of both
Lowest(n, d, g) == IF g = 0 THEN <<0, 0>> ELSE <<n \div g, d \div g>>
Frac(n, d) == IF d < 0 THEN Lowest(0 - n, 0 - d, GCD(Abs(n), Abs(d))) ELSE Lowest(n, d, GCD(Abs(n), d))

R(n) == <<n, 1>>
RNaN == <<0, 0>>
RInf == <<1, 0>>
RNegInf == <<0 - 1, 0>>

r_is_nan(a) == a = RNaN
r_is_finite(a) == a[2] # 0

\* over a common denominator the numerators are added as they are
RAdd(a, b) ==
    IF a[2] = b[2] /\ a[2] # 0 THEN Frac(a[1] + b[1], a[2])
    ELSE Frac(a[1] * b[2] + b[1] * a[2], a[2] * b[2])
RSub(a, b) ==
    IF a[2] = b[2] /\ a[2] # 0 THEN Frac(a[1] - b[1], a[2])
    ELSE Frac(a[1] * b[2] - b[1] * a[2], a[2] * b[2])
RMul(a, b) == Frac(a[1] * b[1], a[2] * b[2])
RDiv(a, b) == Frac(a[1] * b[2], a[2] * b[1])
RNeg(a) == <<0 - a[1], a[2]>>
RAbs(a) == <<Abs(a[1]), a[2]>>

RECURSIVE FracBelow(_, _, _, _)
\* n1 / d1 < n2 / d2 for d1 > 0 and d2 > 0, by whole parts and then remainders,
\* so that no product is formed
FracBelow(n1, d1, n2, d2) ==
    IF n1 \div d1 # n2 \div d2 THEN n1 \div d1 < n2 \div d2
    ELSE IF n2 % d2 = 0 THEN FALSE
    ELSE IF n1 % d1 = 0 THEN TRUE
    ELSE FracBelow(d2, n2 % d2, d1, n1 % d1)

\* the comparisons of floats: false when a side is NaN
Below(a, b) ==
    IF a[2] = b[2] THEN a[1] < b[1]
    ELSE IF a[2] = 0 \/ b[2] = 0 THEN a[1] * b[2] < b[1] * a[2]
    ELSE FracBelow(a[1], a[2], b[1], b[2])
RLt(a, b) == ~r_is_nan(a) /\ ~r_is_nan(b) /\ Below(a, b)
RLe(a, b) == ~r_is_nan(a) /\ ~r_is_nan(b) /\ ~Below(b, a)
RGt(a, b) == RLt(b, a)
RGe(a, b) == RLe(b, a)

\* f64::max and f64::min: the other side when one side is NaN
RMax(a, b) == IF r_is_nan(a) THEN b ELSE IF r_is_nan(b) THEN a ELSE IF RLt(a, b) THEN b ELSE a
RMin(a, b) == IF r_is_nan(a) THEN b ELSE IF r_is_nan(b) THEN a ELSE IF RLt(b, a) THEN b ELSE a

\* partial_cmp(a, b).unwrap_or(Equal) = Greater
RAfter(a, b) == RGt(a, b)

-----------------------------------------------------------------------------
(* The C entry points of lib.rs that are handed BIN1 / BINS bytes.  A call  *)
(* is made on the bytes the caller holds; ffi is what it returned: its      *)
(* code, and whether it wrote the caller's out buffer.                      *)

OK == 0
ERR_INVALID_ARGS == 1
ERR_PANIC == 2
ERR_PARSE == 4
EPS == <<1, 100000>>

ScanPeaksOptions(epsilon, window_size) == [epsilon |-> epsilon, window_size |-> window_size]
BoundariesOptions(epsilon, window_size) == [epsilon |-> epsilon, window_size |-> window_size]
FilterPeaksOptions(integral, width, intensity, noise, auto_noise, allow_overlap, sn_ratio) ==
    [integral_threshold |-> integral, width_threshold |-> width,
     intensity_threshold |-> intensity, noise |-> noise, auto_noise |-> auto_noise,
     allow_overlap |-> allow_overlap, sn_ratio |-> sn_ratio]
FindPeaksOptions(gb, fp, sp) ==
    [get_boundaries_options |-> gb, filter_peaks_options |-> fp, scan_peaks_options |-> sp]
CPeakPOptions(integral, intensity, width, noise, auto_noise, allow_overlap, window_size, sn_ratio) ==
    [integral_threshold |-> integral, intensity_threshold |-> intensity,
     width_threshold |-> width, noise |-> noise, auto_noise |-> auto_noise,
     allow_overlap |-> allow_overlap, window_size |-> window_size, sn_ratio |-> sn_ratio]

\* lib.rs 568-573
odd_at_least(v, min_, def_) ==
    IF Max(IF v = 0 THEN def_ ELSE v, min_) % 2 = 0
    THEN Max(IF v = 0 THEN def_ ELSE v, min_) + 1
    ELSE Max(IF v = 0 THEN def_ ELSE v, min_)

\* lib.rs 575-578
pos_usize(raw, def_) == IF raw > 0 THEN raw ELSE def_

\* (cond).then_some(v)
ThenSome(cond, v) == IF cond THEN Some(v) ELSE NoneV

\* lib.rs 596-617: the filter options from the C struct
FilterFromC(o) ==
    FilterPeaksOptions(
        ThenSome(r_is_finite(o.integral_threshold) /\ RGe(o.integral_threshold, R(0)),
                 o.integral_threshold),
        ThenSome(o.width_threshold > 0, o.width_threshold),
        ThenSome(r_is_finite(o.intensity_threshold) /\ RGe(o.intensity_threshold, R(0)),
                 o.intensity_threshold),
        ThenSome(r_is_finite(o.noise) /\ RGt(o.noise, R(0)), o.noise),
        Some(o.auto_noise # 0),
        Some(o.allow_overlap # 0),
        IF r_is_finite(o.sn_ratio) /\ RGt(o.sn_ratio, R(0)) THEN Some(o.sn_ratio)
        ELSE Some(<<3, 2>>))

\* build_find_peaks_options(options), options a null pointer (None) or not
build_find_peaks_options(options) ==
    IF options = NoneV
    THEN FindPeaksOptions(Some(BoundariesOptions(<<1, 100000>>, 17)), NoneV,
                          Some(ScanPeaksOptions(EPS, odd_at_least(17, 5, 17))))
    ELSE FindPeaksOptions(Some(BoundariesOptions(<<1, 100000>>, 17)),
                          Some(FilterFromC(options[1])),
                          Some(ScanPeaksOptions(EPS, odd_at_least(pos_usize(options[1].window_size, 17),
                                                                  5, 17))))

\* what an entry point returns: write_buf is the last step of a call that
\* returns OK, and of no other
FfiReturn(fn, code) == [fn |-> fn, code |-> code, written |-> code = OK]

\* match catch_unwind(run): Ok(Ok(())) => OK, Ok(Err(code)) => code,
\* Err(_) => ERR_PANIC
CodeOf(r, code) ==
    IF r.tag = "panic" THEN ERR_PANIC ELSE IF r.tag = "err" THEN code ELSE OK

\* serde_json::to_string(&mzml) of bin_to_json (lib.rs 474-475): mzml is the
\* Result decode returned, and a Result serialises whether it is Ok or Err
to_string(r) == IF r.tag = "panic" THEN r ELSE Ok(<<r.tag>>)

\* calculate_eic_from_bin1(bin1, target_mass, from_to, options), decoded
\* being what decode(bin1) returned
calculate_eic_from_bin1(decoded, target_mass, from_to, options) ==
    Then(decoded, LAMBDA mzml : calculate_eic_from_mzml(mzml, target_mass, from_to, options))

\* get_peaks_from_eic and get_peaks_from_chrom (lines 21-28 and 16-33) for a
\* call the caller's thread computes: decoded is what decode returned
PeaksOf(decoded, in) ==
    IF decoded.tag = "panic" THEN decoded
    ELSE IF decoded.tag = "err" THEN Ok(NoneV)
    ELSE RunInOrder(in, 1, <<>>)

\* .ok_or(ERR_PARSE)?
ok_or(r, code) == IF r = Ok(NoneV) THEN Err("none") ELSE r

\* lib.rs 236-275: the EicRoi of one item, zeroed when a value is not finite
\* or the window is not positive
EicItem(id, rt, mz, win) ==
    IF is_finite(rt) /\ is_finite(mz) /\ is_finite(win) /\ win > 0
    THEN EicRoi(id, rt, mz, win)
    ELSE EicRoi(<<>>, 0, 0, 0)

\* lib.rs 340-368: the ChromRoi of one item, a placeholder when the index is
\* not one of a chromatogram
ChromItem(chroms, idx, rt, win) ==
    IF idx >= Len(chroms) THEN ChromRoi(<<>>, idx, 0, 0)
    ELSE ChromRoi(chroms[idx + 1].id, idx, rt, win)

\* the calls made: a time window of NaN bounds, which no spectrum is in
FfiEicCalls ==
    [target : {2}, from_to : {FromTo(NaN, NaN)}, options : {EicOptions(0, 1)}]
FfiEicItems == {<<<<97>>, 2, 2, 1>>, <<<<98>>, 2, PosInf, 1>>}
FfiChromItems == {<<0, 2, 1>>, <<5, 2, 1>>}

PeaksCall(fn, decoded, from_to, items) ==
    [fn |-> fn, mzml |-> decoded, from_to |-> from_to, items |-> items,
     options |-> Some(build_find_peaks_options(NoneV)), cores |-> 1]

\* a call is made once, on bytes that came from the encoder or were altered
FfiReady == origin # "none" /\ res.tag = "pending" /\ ffi = <<>>

FfiDone(returned) ==
    /\ res' = decode(buf)
    /\ ffi' = returned
    /\ UNCHANGED <<doc, buf, origin, buf2, overflow_checks, eic_vars, pk_in, pool, pk_out,
                   fp_in, fp_out, ff_in, ff_out, pd_in, pd_out>>

\* bin_to_json(bin_ptr, bin_len, out_json)
FfiBinToJson ==
    /\ FfiReady
    /\ FfiDone(FfiReturn("bin_to_json", CodeOf(to_string(res'), ERR_PARSE)))

\* calculate_eic(bin_ptr, bin_len, target, from_time, to_time, ppm_tolerance,
\* mz_tolerance, out_x, out_y)
FfiCalculateEic ==
    /\ FfiReady
    /\ \E c \in FfiEicCalls :
          FfiDone(FfiReturn("calculate_eic",
                            CodeOf(calculate_eic_from_bin1(res', c.target, c.from_to, c.options),
                                   ERR_PARSE)))

\* get_peaks_from_eic(bin_ptr, bin_len, rts, mzs, ranges, ids, n_items = 1,
\* from_left, to_right, options = null, cores, out_json)
FfiGetPeaksFromEic ==
    /\ FfiReady
    /\ \E it \in FfiEicItems :
          FfiDone(FfiReturn("get_peaks_from_eic",
                            CodeOf(ok_or(PeaksOf(res',
                                                 PeaksCall("eic", res', FromTo(NaN, NaN),
                                                           <<EicItem(it[1], it[2], it[3], it[4])>>)),
                                         ERR_PARSE),
                                   ERR_PARSE)))

\* lib.rs 336-371, for a document that decoded: its run, the items, then
\* get_peaks_from_chrom
ChromPeaksOf(decoded, it) ==
    IF decoded.tag # "ok" THEN decoded
    ELSE IF decoded.v.run = NoneV THEN Err("no run")
    ELSE ok_or(PeaksOf(decoded,
                       PeaksCall("chrom", decoded, FromTo(0, 0),
                                 <<ChromItem(decoded.v.run[1].chromatograms, it[1], it[2], it[3])>>)),
               ERR_PARSE)

\* get_peaks_from_chrom(bin_ptr, bin_len, idxs, rts, ranges, n_items = 1,
\* options = null, cores, out_json)
FfiGetPeaksFromChrom ==
    /\ FfiReady
    /\ \E it \in FfiChromItems :
          FfiDone(FfiReturn("get_peaks_from_chrom", CodeOf(ChromPeaksOf(res', it), ERR_PARSE)))

FfiNext ==
    \/ Encode \/ EncodeArrays
    \/ Truncate \/ SetMagic \/ SetCount \/ SetFormats \/ SetHeaderWord
    \/ SetArrayEntry \/ SetIdEntry \/ SetIdByte
    \/ FfiBinToJson \/ FfiCalculateEic \/ FfiGetPeaksFromEic \/ FfiGetPeaksFromChrom

\* the documents handed to the entry points: no run, or a run of at most
\* MaxFfiItems spectra and chromatograms together
MaxFfiItems == 1
DocsFfi ==
    {d \in DocsT : d.run # NoneV =>
                       Len(d.run[1].spectra) + Len(d.run[1].chromatograms) <= MaxFfiItems}
InitFfi == CodecInit(DocsFfi)

SpecFfi == InitFfi /\ [][FfiNext]_vars

\* decode fails on the bytes of the call
DecodeFails == res.tag = "err"

\* C15: every entry point that is handed BIN1 / BINS bytes (bin_to_json,
\* calculate_eic, get_peaks_from_eic, get_peaks_from_chrom) returns code 4
\* (Parse), and not 0 (OK), whenever decode fails on the bytes
C15_DecodeFailureIsParseError ==
    (ffi # <<>> /\ DecodeFails) => ffi.code = ERR_PARSE

-----------------------------------------------------------------------------
(* sgg.rs: Savitzky-Golay smoothing and derivatives on a grid xs.  Indices  *)
(* count from 0 as in the code; At(s, i) is s[i].                           *)

At(s, i) == s[i + 1]

RECURSIVE gen_fact_from(_, _, _)
gen_fact_from(j, a, acc) == IF j > a THEN acc ELSE gen_fact_from(j + 1, a, acc * j)
\* sgg.rs 210-224
gen_fact(a, b) == IF a >= b THEN gen_fact_from(a - b + 1, a, 1) ELSE 1

RECURSIVE gram_table(_, _, _, _)
\* sgg.rs 176-208: the entry g[k][s] of gram_table(i, m, n_max, s_max), for
\* k <= n_max and s <= s_max
gram_table(i, m, k, s) ==
    IF k = 0 THEN (IF s = 0 THEN R(1) ELSE R(0))
    ELSE RSub(RMul(Frac(4 * k - 2, k * (2 * m - k + 1)),
                   RAdd(RMul(R(i), gram_table(i, m, k - 1, s)),
                        IF s > 0 THEN RMul(R(s), gram_table(i, m, k - 1, s - 1)) ELSE R(0))),
              RMul(Frac((k - 1) * (2 * m + k), k * (2 * m - k + 1)),
                   IF k >= 2 THEN gram_table(i, m, k - 2, s) ELSE R(0)))

\* sgg.rs 163-164
sg_coef(two_m, k) == RMul(R(2 * k + 1), Frac(gen_fact(two_m, k), gen_fact(two_m + k + 1, k + 1)))

RECURSIVE sg_weight(_, _, _, _, _, _, _)
\* sgg.rs 167-173: w[t_idx][j_idx], the sum over k = 0..n
sg_weight(half, n, s, t_idx, j_idx, k, sum) ==
    IF k > n THEN sum
    ELSE sg_weight(half, n, s, t_idx, j_idx, k + 1,
                   RAdd(sum, RMul(RMul(sg_coef(2 * half, k), gram_table(j_idx - half, half, k, 0)),
                                  gram_table(t_idx - half, half, k, s))))

RECURSIVE sg_row(_, _, _, _, _, _)
sg_row(m, n, s, t_idx, j_idx, row) ==
    IF j_idx >= m THEN row
    ELSE sg_row(m, n, s, t_idx, j_idx + 1,
                Append(row, sg_weight(m \div 2, n, s, t_idx, j_idx, 0, R(0))))

RECURSIVE sg_rows(_, _, _, _, _)
sg_rows(m, n, s, t_idx, rows) ==
    IF t_idx >= m THEN rows
    ELSE sg_rows(m, n, s, t_idx + 1, Append(rows, sg_row(m, n, s, t_idx, 0, <<>>)))

\* sgg.rs 132-174
full_weights(m, n, s) == sg_rows(m, n, s, 0, <<>>)

\* the callers fit polynomials of degree 3 (SggOptions.polynomial)
SG_POLYNOMIAL == 3
\* the largest window of a series of the model
MaxWindow == 11

RECURSIVE sg_table(_, _, _)
\* full_weights(m, 3, s) for the odd windows m from 5 to MaxWindow, at index (m - 5) / 2 + 1
sg_table(s, m, tbl) ==
    IF m > MaxWindow THEN tbl
    ELSE sg_table(s, m + 2, Append(tbl, full_weights(m, SG_POLYNOMIAL, s)))

\* the weights are computed once per window and derivative
SG_WEIGHTS == <<sg_table(0, 5, <<>>), sg_table(1, 5, <<>>), sg_table(2, 5, <<>>)>>
weights_of(window_size, derivative) == SG_WEIGHTS[derivative + 1][(window_size - 5) \div 2 + 1]

RECURSIVE pref(_, _)
\* sgg.rs 106-109
pref(xs, i) == IF i = 0 THEN R(0) ELSE RAdd(pref(xs, i - 1), RSub(At(xs, i), At(xs, i - 1)))

RECURSIVE powi(_, _)
powi(a, e) == IF e = 0 THEN R(1) ELSE RMul(a, powi(a, e - 1))

\* sgg.rs 112-128: hs[c]
hs_at(xs, half, derivative, start, end_excl) ==
    IF end_excl > start
    THEN powi(RDiv(RSub(pref(xs, end_excl), pref(xs, start)), R(end_excl - start)), derivative)
    ELSE powi(R(1), derivative)

\* sgg.rs 99-130
get_hs(xs, half, derivative) ==
    IF derivative = 0 \/ Len(xs) < 2 THEN [c \in 1..Len(xs) |-> R(1)]
    ELSE [c \in 1..Len(xs) |->
             hs_at(xs, half, derivative, Max(c - 1 - half, 0), Min(c - 1 + half, Len(xs) - 1))]

RECURSIVE sg_dot(_, _, _, _, _)
\* sgg.rs 67-70, 84-86: d += w[l] * y64[off + l] for l = 0..window_size-1
sg_dot(w, ys, off, l, d) ==
    IF l >= Len(w) THEN d
    ELSE sg_dot(w, ys, off, l + 1, RAdd(d, RMul(At(w, l), At(ys, off + l))))

\* sgg.rs 59-91: ans[idx]
sg_ans(ys, weights, hs, half, idx) ==
    IF idx < half THEN RDiv(sg_dot(At(weights, idx), ys, 0, 0, R(0)), At(hs, idx))
    ELSE IF idx >= Len(ys) - half
    THEN RDiv(sg_dot(At(weights, idx - (Len(ys) - half) + half + 1), ys,
                     Len(ys) - Len(weights), 0, R(0)), At(hs, idx))
    ELSE RDiv(sg_dot(At(weights, half), ys, idx - half, 0, R(0)), At(hs, idx))

sg_all(ys, weights, hs, half) == [c \in 1..Len(ys) |-> sg_ans(ys, weights, hs, half, c - 1)]

\* sgg.rs 23-41: the calls that panic
sgg_panics(ys, xs, window_size) ==
    window_size % 2 = 0 \/ window_size < 5 \/ ys = <<>> \/ xs = <<>> \/ window_size > Len(ys)

\* sgg.rs 18-97, for a call that does not panic
sgg(ys, xs, window_size, derivative) ==
    sg_all(ys, weights_of(window_size, derivative), get_hs(xs, window_size \div 2, derivative),
           window_size \div 2)

-----------------------------------------------------------------------------
(* scan_for_peaks.rs: the positions of the local maxima of a series, voted  *)
(* over the Savitzky-Golay windows that fit it.                             *)

RECURSIVE two_pow(_)
two_pow(k) == IF k = 0 THEN 1 ELSE 2 * two_pow(k - 1)
\* f64::EPSILON = 2^-52
F64_EPSILON(k) == <<1, two_pow(k)>>
\* v.max(f64::EPSILON), for v that is not NaN
at_least_eps(v) == IF RGt(v, R(0)) THEN v ELSE F64_EPSILON(52)

\* the window sizes of scan_for_peaks (line 19)
SCAN_WINDOW_SIZES == <<5, 7, 9, 11, 13, 15, 17, 19, 21>>

\* scan_for_peaks.rs 284-292
sign_eps(v, eps) == IF RGt(v, eps) THEN 1 ELSE IF RLt(v, RNeg(eps)) THEN 0 - 1 ELSE 0

\* scan_for_peaks.rs 295-302: |denom| > f32::EPSILON is denom # 0 for the
\* fractions of the model, whose non-zero values are far above 2^-23
refine_zero_cross(x0, x1, d0, d1) ==
    IF RSub(d0, d1) # R(0)
    THEN RAdd(x0, RMul(RSub(x1, x0), RDiv(d0, RSub(d0, d1))))
    ELSE RMul(<<1, 2>>, RAdd(x0, x1))

\* scan_for_peaks.rs 314-319, with a0, a1, dy0, dy1 and denom # 0 computed
quad_vertex_of(x0, a0, a1, dy0, dy1, denom) ==
    IF RDiv(RSub(RMul(dy0, a1), RMul(dy1, a0)), denom) = R(0) THEN x0
    ELSE RSub(x0, RDiv(RDiv(RSub(RMul(RMul(dy1, a0), a0), RMul(RMul(dy0, a1), a1)), denom),
                       RMul(R(2), RDiv(RSub(RMul(dy0, a1), RMul(dy1, a0)), denom))))

\* scan_for_peaks.rs 305-320
quad_vertex(xm1, x0, xp1, ym1, y0, yp1) ==
    IF RMul(RMul(RSub(xm1, x0), RSub(xp1, x0)), RSub(RSub(xm1, x0), RSub(xp1, x0))) = R(0)
    THEN x0
    ELSE quad_vertex_of(x0, RSub(xm1, x0), RSub(xp1, x0), RSub(ym1, y0), RSub(yp1, y0),
                        RMul(RMul(RSub(xm1, x0), RSub(xp1, x0)),
                             RSub(RSub(xm1, x0), RSub(xp1, x0))))

RECURSIVE dx_min_from(_, _, _)
\* scan_for_peaks.rs 326-332, 349-355: the least positive step, or +infinity
dx_min_from(x, i, m) ==
    IF i + 1 >= Len(x) THEN m
    ELSE dx_min_from(x, i + 1,
                     IF RGt(RSub(At(x, i + 1), At(x, i)), R(0)) /\ RLt(RSub(At(x, i + 1), At(x, i)), m)
                     THEN RSub(At(x, i + 1), At(x, i)) ELSE m)

dx_avg_of(x) == RDiv(RAbs(RSub(At(x, Len(x) - 1), At(x, 0))), R(Len(x) - 1))
\* lines 333-337 and 356-360
dx_min_or_avg(x, dx_min) == IF r_is_finite(dx_min) THEN dx_min ELSE at_least_eps(dx_avg_of(x))

\* scan_for_peaks.rs 323-341
min_separation(x, window_size) ==
    RMax(RMul(RMul(<<1, 4>>, R(window_size)), dx_avg_of(x)),
         RMul(<<3, 2>>, dx_min_or_avg(x, dx_min_from(x, 0, RInf))))

\* scan_for_peaks.rs 343-362
time_tolerance(xs) ==
    IF Len(xs) < 2 THEN <<1, 100>>
    ELSE RMax(RMul(R(5), dx_min_or_avg(xs, dx_min_from(xs, 0, RInf))), <<1, 100>>)

RECURSIVE insert_by_x(_, _)
\* c placed after the entries whose position is not greater than its own
insert_by_x(sorted, c) ==
    IF sorted = <<>> THEN <<c>>
    ELSE IF RGt(Head(sorted)[1], c[1]) THEN <<c>> \o sorted
    ELSE <<Head(sorted)>> \o insert_by_x(Tail(sorted), c)

RECURSIVE sort_by_x(_, _)
\* sort_by / sort_unstable_by on the position (lines 112, 225): entries of
\* equal position keep their order, as the insertion sort of short slices does
sort_by_x(cs, sorted) ==
    IF cs = <<>> THEN sorted ELSE sort_by_x(Tail(cs), insert_by_x(sorted, Head(cs)))

\* scan_for_peaks.rs 172-178: the candidate at the zero crossing between k and k + 1
zero_cross_cand(x, ys_sm, k, xp) ==
    IF RLe(RAbs(RSub(xp, At(x, k))), RAbs(RSub(At(x, k + 1), xp)))
    THEN <<xp, At(ys_sm, k), k>>
    ELSE <<xp, At(ys_sm, k + 1), k + 1>>

RECURSIVE zero_crossings(_, _, _, _, _, _)
\* scan_for_peaks.rs 168-180
zero_crossings(x, ys_sm, dy, eps, k, cands) ==
    IF k + 1 >= Len(x) THEN cands
    ELSE IF \/ sign_eps(At(dy, k), eps) > 0 /\ sign_eps(At(dy, k + 1), eps) <= 0
            \/ sign_eps(At(dy, k), eps) >= 0 /\ sign_eps(At(dy, k + 1), eps) < 0
    THEN zero_crossings(x, ys_sm, dy, eps, k + 1,
                        Append(cands, zero_cross_cand(x, ys_sm, k,
                                   refine_zero_cross(At(x, k), At(x, k + 1), At(dy, k), At(dy, k + 1)))))
    ELSE zero_crossings(x, ys_sm, dy, eps, k + 1, cands)

RECURSIVE flat_end(_, _, _)
\* scan_for_peaks.rs 186-189: the last index of the flat run that starts at i
flat_end(dy, eps, i) ==
    IF i + 1 < Len(dy) /\ RLe(RAbs(At(dy, i + 1)), eps) THEN flat_end(dy, eps, i + 1) ELSE i

RECURSIVE flat_max(_, _, _, _)
\* scan_for_peaks.rs 194-202: the first index of the largest smoothed value in j..b
flat_max(ys_sm, j, b, im) ==
    IF j > b THEN im
    ELSE flat_max(ys_sm, j + 1, b, IF RGt(At(ys_sm, j), At(ys_sm, im)) THEN j ELSE im)

\* scan_for_peaks.rs 203-215
flat_cand(x, ys_sm, im) ==
    IF im > 0 /\ im + 1 < Len(x)
    THEN <<quad_vertex(At(x, im - 1), At(x, im), At(x, im + 1),
                       At(ys_sm, im - 1), At(ys_sm, im), At(ys_sm, im + 1)), At(ys_sm, im), im>>
    ELSE <<At(x, im), At(ys_sm, im), im>>

\* scan_for_peaks.rs 190-217: the candidate of the flat run a..b, if it has one
flat_cands(x, ys_sm, a, b) ==
    IF /\ ~(a = 0 /\ b + 1 >= Len(x))
       /\ (a = 0 \/ RGe(At(ys_sm, a), At(ys_sm, a - 1)))
       /\ (b + 1 >= Len(x) \/ RGe(At(ys_sm, b), At(ys_sm, b + 1)))
    THEN <<flat_cand(x, ys_sm, flat_max(ys_sm, a + 1, b, a))>>
    ELSE <<>>

RECURSIVE flat_runs(_, _, _, _, _, _)
\* scan_for_peaks.rs 182-220
flat_runs(x, ys_sm, dy, eps, i, cands) ==
    IF i >= Len(x) THEN cands
    ELSE IF RLe(RAbs(At(dy, i)), eps)
    THEN flat_runs(x, ys_sm, dy, eps, flat_end(dy, eps, i) + 1,
                   cands \o flat_cands(x, ys_sm, i, flat_end(dy, eps, i)))
    ELSE flat_runs(x, ys_sm, dy, eps, i + 1, cands)

RECURSIVE valley_between(_, _, _, _)
\* scan_for_peaks.rs 242-248
valley_between(ys_sm, j, r, valley) ==
    IF j > r THEN valley
    ELSE valley_between(ys_sm, j + 1, r, IF RLt(At(ys_sm, j), valley) THEN At(ys_sm, j) ELSE valley)

Last(s) == s[Len(s)]
ReplaceLast(s, v) == [s EXCEPT ![Len(s)] = v]

RECURSIVE thin_one_ws(_, _, _, _)
\* scan_for_peaks.rs 233-264: out holds (x, y, idx); its last entry is
\* (last_x, last_y, last_i), and it is empty while last_i is usize::MAX
thin_one_ws(ys_sm, cands, min_sep, out) ==
    IF cands = <<>> THEN out
    ELSE IF out = <<>> \/ RGe(RSub(Head(cands)[1], Last(out)[1]), min_sep)
    THEN thin_one_ws(ys_sm, Tail(cands), min_sep, Append(out, Head(cands)))
    ELSE IF RLe(valley_between(ys_sm, Min(Last(out)[3], Head(cands)[3]),
                               Max(Last(out)[3], Head(cands)[3]), RInf),
                RMul(<<4, 5>>, RMin(Last(out)[2], Head(cands)[2])))
    THEN thin_one_ws(ys_sm, Tail(cands), min_sep, Append(out, Head(cands)))
    ELSE IF RGt(Head(cands)[2], Last(out)[2])
    THEN thin_one_ws(ys_sm, Tail(cands), min_sep, ReplaceLast(out, Head(cands)))
    ELSE thin_one_ws(ys_sm, Tail(cands), min_sep, out)

RECURSIVE any_above(_, _)
\* scan_for_peaks.rs 156-162
any_above(dy, eps) == dy # <<>> /\ (RGt(RAbs(Head(dy)), eps) \/ any_above(Tail(dy), eps))

\* scan_for_peaks.rs 156-266, on the smoothed series and its derivative
scan_smoothed(x, ys_sm, dy, eps, ws) ==
    IF ~any_above(dy, eps) THEN <<>>
    ELSE thin_one_ws(ys_sm,
                     sort_by_x(flat_runs(x, ys_sm, dy, eps, 0,
                                         zero_crossings(x, ys_sm, dy, eps, 0, <<>>)), <<>>),
                     min_separation(x, ws), <<>>)

\* scan_for_peaks.rs 136-267: the candidates (x, y, idx) of one window
scan_one_ws(data, ws_in, eps) ==
    IF Len(data.x) < 3 THEN <<>>
    ELSE scan_smoothed(data.x, sgg(data.y, data.x, Max(ws_in, 3), 0),
                       sgg(data.y, data.x, Max(ws_in, 3), 1), eps, Max(ws_in, 3))

RECURSIVE scan_all(_, _, _, _)
\* scan_for_peaks.rs 53-59
scan_all(data, sizes, eps, all) ==
    IF sizes = <<>> THEN all
    ELSE scan_all(data, Tail(sizes), eps, all \o scan_one_ws(data, Head(sizes), eps))

\* scan_for_peaks.rs 84-90: the cluster (center, peak_y, count) joined by (x, y)
joined(c, x, y) ==
    <<RDiv(RAdd(RMul(c[1], R(c[3])), x), R(c[3] + 1)),
      IF RGt(y, c[2]) THEN y ELSE c[2], c[3] + 1>>

RECURSIVE join_cluster(_, _, _, _, _)
\* scan_for_peaks.rs 80-99
join_cluster(centers, k, x, y, rt_tol) ==
    IF k > Len(centers) THEN Append(centers, <<x, y, 1>>)
    ELSE IF RLe(RAbs(RSub(x, centers[k][1])), rt_tol)
    THEN [centers EXCEPT ![k] = joined(centers[k], x, y)]
    ELSE join_cluster(centers, k + 1, x, y, rt_tol)

RECURSIVE cluster_all(_, _, _)
\* scan_for_peaks.rs 77-100
cluster_all(all, rt_tol, centers) ==
    IF all = <<>> THEN centers
    ELSE cluster_all(Tail(all), rt_tol, join_cluster(centers, 1, Head(all)[1], Head(all)[2], rt_tol))

\* scan_for_peaks.rs 67-71
votes_needed(m) == IF m = 1 THEN 1 ELSE (3 * m + 4) \div 5

\* no thinning: every voted group is returned
thin_kept_All(kept, min_sep, out) == kept

RECURSIVE thin_kept(_, _, _)
\* scan_for_peaks.rs 119-131: out holds (x, y); its last entry is (last_x, last_y)
thin_kept(kept, min_sep, out) ==
    IF kept = <<>> THEN out
    ELSE IF out = <<>> \/ RGe(RSub(Head(kept)[1], Last(out)[1]), min_sep)
    THEN thin_kept(Tail(kept), min_sep, Append(out, Head(kept)))
    ELSE IF RGt(Head(kept)[2], Last(out)[2])
    THEN thin_kept(Tail(kept), min_sep, ReplaceLast(out, Head(kept)))
    ELSE thin_kept(Tail(kept), min_sep, out)

Firsts(s) == [i \in 1..Len(s) |-> s[i][1]]

\* scan_for_peaks.rs 102-133
scan_vote(x, centers, need) ==
    Firsts(thin_kept(sort_by_x(SelectSeq(centers, LAMBDA c : c[3] >= need), <<>>),
                     min_separation(x, 11), <<>>))

\* scan_for_peaks.rs 61-133
scan_voted(x, all, m) ==
    IF all = <<>> THEN <<>> ELSE scan_vote(x, cluster_all(all, time_tolerance(x), <<>>), votes_needed(m))

\* scan_for_peaks.rs 38-59
scan_sizes(data, options, sizes) ==
    IF sizes = <<>> THEN <<>>
    ELSE scan_voted(data.x, scan_all(data, sizes, options.epsilon, <<>>), Len(sizes))

\* scan_for_peaks.rs 25-134: the positions, in increasing order
scan_for_peaks_across_windows(data, options, window_sizes) ==
    IF Len(data.x) < 3 \/ Len(data.x) # Len(data.y) THEN <<>>
    ELSE scan_sizes(data, options, WindowSizes(window_sizes, Len(data.x), <<>>))

\* scan_for_peaks.rs 21-23
scan_for_peaks(data, options) == scan_for_peaks_across_windows(data, options, SCAN_WINDOW_SIZES)

-----------------------------------------------------------------------------
(* utilities.rs, find_noise_level.rs and get_boundaries.rs                  *)

RECURSIVE lower_bound_of(_, _, _, _)
\* utilities.rs 11-20
lower_bound_of(xs, v, lo, hi) ==
    IF lo >= hi THEN lo
    ELSE IF RLt(At(xs, (lo + hi) \div 2), v) THEN lower_bound_of(xs, v, (lo + hi) \div 2 + 1, hi)
    ELSE lower_bound_of(xs, v, lo, (lo + hi) \div 2)

\* utilities.rs 21-29
closest_to(xs, v, lo) ==
    IF lo = 0 THEN 0
    ELSE IF lo >= Len(xs) THEN Len(xs) - 1
    ELSE IF RLe(RAbs(RSub(v, At(xs, lo - 1))), RAbs(RSub(At(xs, lo), v))) THEN lo - 1
    ELSE lo

\* utilities.rs 7-30
closest_index(xs, v) == IF xs = <<>> THEN 0 ELSE closest_to(xs, v, lower_bound_of(xs, v, 0, Len(xs)))

RECURSIVE xy_sum(_, _, _, _)
\* utilities.rs 117-121: s
xy_sum(x, y, i, s) ==
    IF i + 1 >= Len(x) THEN s
    ELSE xy_sum(x, y, i + 1,
                RAdd(s, RMul(RMul(RSub(At(x, i + 1), At(x, i)), RAdd(At(y, i), At(y, i + 1))),
                             <<1, 2>>)))

RECURSIVE xy_max(_, _, _)
\* utilities.rs 116, 122-124: m
xy_max(y, i, m) ==
    IF i + 1 >= Len(y) THEN m
    ELSE xy_max(y, i + 1, IF RGt(At(y, i + 1), m) THEN At(y, i + 1) ELSE m)

\* utilities.rs 107-127: (integral, intensity)
xy_integration(x, y) ==
    IF Len(x) = 0 \/ Len(x) # Len(y) THEN <<R(0), RNegInf>>
    ELSE IF Len(x) = 1 THEN <<R(0), y[1]>>
    ELSE <<xy_sum(x, y, 0, R(0)), xy_max(y, 0, y[1])>>

\* utilities.rs 1-4
is_finite_positive(a) == r_is_finite(a) /\ RGt(a, R(0))

\* find_noise_level.rs 157-174: no positive value, or one positive level
\* (log10 is increasing, so max_log <= min_log when the levels are equal)
one_positive_level(intensities) ==
    \A i, j \in 1..Len(intensities) :
        is_finite_positive(intensities[i]) /\ is_finite_positive(intensities[j])
            => intensities[i] = intensities[j]

\* find_noise_level.rs 143-301.  Lines 176-301 bin the logarithms of the
\* positive values; they are not modelled, and the series of the model have
\* at most one positive level
find_noise_level(intensities) ==
    IF one_positive_level(intensities) THEN RInf
    ELSE CHOOSE level \in {} : TRUE

RECURSIVE walk_left_from(_, _, _, _, _, _)
\* get_boundaries.rs 153-169
walk_left_from(y, i, streak, tolerance, streak_limit, noise_floor) ==
    IF i <= 0 \/ RLe(At(y, i), noise_floor) THEN i
    ELSE IF RLe(RAdd(At(y, i - 1), tolerance), At(y, i))
    THEN walk_left_from(y, i - 1, 0, tolerance, streak_limit, noise_floor)
    ELSE IF streak + 1 >= streak_limit THEN i
    ELSE walk_left_from(y, i - 1, streak + 1, tolerance, streak_limit, noise_floor)

\* get_boundaries.rs 141-170
walk_left(y, start, tolerance, streak_limit, noise_floor) ==
    IF y = <<>> THEN 0
    ELSE walk_left_from(y, IF start > 0 THEN start - 1 ELSE 0, 0, tolerance, streak_limit,
                        noise_floor)

RECURSIVE walk_right_from(_, _, _, _, _, _, _)
\* get_boundaries.rs 186-208
walk_right_from(y, i, streak, min_value, tolerance, streak_limit, noise_floor) ==
    IF i + 1 >= Len(y) \/ RLe(At(y, i), noise_floor) THEN i
    ELSE IF RLe(RAdd(At(y, i + 1), tolerance), At(y, i))
    THEN walk_right_from(y, i + 1, 0, RMin(At(y, i + 1), min_value), tolerance, streak_limit,
                         noise_floor)
    ELSE IF streak + 1 < streak_limit
    THEN walk_right_from(y, i + 1, streak + 1, RMin(At(y, i + 1), min_value), tolerance,
                         streak_limit, noise_floor)
    ELSE IF RGt(At(y, i + 1), RAdd(min_value, tolerance)) THEN i
    ELSE walk_right_from(y, i + 1, 0, RMin(At(y, i + 1), min_value), tolerance, streak_limit,
                         noise_floor)

\* get_boundaries.rs 172-209
walk_right(y, start, tolerance, streak_limit, noise_floor) ==
    IF y = <<>> THEN 0
    ELSE walk_right_from(y, IF start + 1 < Len(y) THEN start + 1 ELSE Len(y) - 1, 0,
                         At(y, IF start + 1 < Len(y) THEN start + 1 ELSE Len(y) - 1),
                         tolerance, streak_limit, noise_floor)

RECURSIVE pick_mode_from(_, _, _, _)
\* get_boundaries.rs 214-233: best, with best_val = votes[best]
pick_mode_from(votes, right_bias, i, best) ==
    IF i >= Len(votes) THEN best
    ELSE IF At(votes, i) = 0 THEN pick_mode_from(votes, right_bias, i + 1, best)
    ELSE IF best = NoneV THEN pick_mode_from(votes, right_bias, i + 1, Some(i))
    ELSE IF \/ At(votes, i) > At(votes, best[1])
            \/ At(votes, i) = At(votes, best[1])
               /\ ((right_bias /\ i > best[1]) \/ (~right_bias /\ i < best[1]))
    THEN pick_mode_from(votes, right_bias, i + 1, Some(i))
    ELSE pick_mode_from(votes, right_bias, i + 1, best)

\* get_boundaries.rs 211-235
pick_mode(votes, right_bias) == pick_mode_from(votes, right_bias, 0, NoneV)

Boundary(index, value) == [index |-> index, value |-> value]
NoBoundary == Boundary(NoneV, NoneV)
Boundaries(from, to) == [from |-> from, to |-> to]

\* get_boundaries.rs 253-260: s
step_slope(x, y, i, j, inc, epsilon) ==
    RMul(RSub(At(y, j), At(y, i)),
         IF RSub(At(x, j), At(x, i)) = R(0) THEN (IF inc > 0 THEN epsilon ELSE RNeg(epsilon))
         ELSE RSub(At(x, j), At(x, i)))

RECURSIVE step_from(_, _, _, _, _)
\* get_boundaries.rs 246-272
step_from(x, y, p, inc, epsilon) ==
    IF ~(p >= 0 /\ p < Len(x)) \/ p + inc < 0 \/ p + inc >= Len(x) THEN NoBoundary
    ELSE IF \/ inc > 0 /\ RGe(step_slope(x, y, p, p + inc, inc, epsilon), R(0))
            \/ inc < 0 /\ RLe(step_slope(x, y, p, p + inc, inc, epsilon), R(0))
    THEN Boundary(Some(p), Some(At(x, p)))
    ELSE step_from(x, y, p + inc, inc, epsilon)

\* get_boundaries.rs 237-273
step_boundary(x, y, idx, inc, epsilon) ==
    IF Len(x) < 2 THEN NoBoundary ELSE step_from(x, y, idx + inc, inc, epsilon)

\* get_boundaries.rs 78-85
walk_tolerance(peak_level) ==
    IF RLt(RMul(<<1, 100>>, peak_level), R(3)) THEN R(3)
    ELSE IF RGt(RMul(<<1, 100>>, peak_level), R(250)) THEN R(250)
    ELSE RMul(<<1, 100>>, peak_level)

AddVote(votes, i) == [votes EXCEPT ![i + 1] = @ + 1]

\* get_boundaries.rs 89-96: the votes <<from_votes, to_votes>> after a window
\* whose walks ended at left_idx and right_idx
vote(votes, left_idx, right_idx) ==
    IF left_idx < right_idx THEN <<AddVote(votes[1], left_idx), AddVote(votes[2], right_idx)>>
    ELSE votes

\* get_boundaries.rs 78-90
walk_both(smooth_y, idx, peak_level, noise_level, votes) ==
    vote(votes,
         walk_left(smooth_y, idx, walk_tolerance(peak_level), 2,
                   RMax(noise_level, RMul(<<7, 200>>, peak_level))),
         walk_right(smooth_y, idx, walk_tolerance(peak_level), 2,
                    RMax(noise_level, RMul(<<7, 200>>, peak_level))))

\* get_boundaries.rs 68-96
vote_window(smooth_y, idx, noise_level, votes) ==
    walk_both(smooth_y, idx, RMax(RAbs(At(smooth_y, idx)), R(1)), noise_level, votes)

RECURSIVE vote_windows(_, _, _, _, _)
\* get_boundaries.rs 67-97
vote_windows(data, idx, noise_level, win_sizes, votes) ==
    IF win_sizes = <<>> THEN votes
    ELSE vote_windows(data, idx, noise_level, Tail(win_sizes),
                      vote_window(sgg(data.y, data.x, Head(win_sizes), 0), idx, noise_level, votes))

\* get_boundaries.rs 118-138
step_boundaries(data, idx, o, y_slice) ==
    Boundaries(step_boundary(data.x, y_slice, idx, 0 - 1, o.epsilon),
               step_boundary(data.x, y_slice, idx, 1, o.epsilon))

\* get_boundaries.rs 118-138
boundaries_by_steps(data, idx, o) ==
    IF o.window_size >= 5 /\ o.window_size % 2 = 1 /\ o.window_size <= Len(data.x)
    THEN step_boundaries(data, idx, o, sgg(data.y, data.x, o.window_size, 0))
    ELSE step_boundaries(data, idx, o, data.y)

\* get_boundaries.rs 99-116
boundaries_by_mode(data, idx, o, f, t) ==
    IF f # NoneV /\ t # NoneV /\ f[1] < t[1]
    THEN Boundaries(Boundary(f, Some(At(data.x, f[1]))), Boundary(t, Some(At(data.x, t[1]))))
    ELSE boundaries_by_steps(data, idx, o)

\* get_boundaries.rs 99-138: has_any_votes is that a vote was cast
boundaries_of(data, idx, o, votes) ==
    boundaries_by_mode(data, idx, o, pick_mode(votes[1], FALSE), pick_mode(votes[2], TRUE))

ZeroVotes(n) == [i \in 1..n |-> 0]

\* get_boundaries.rs 36-139
get_boundaries(data, peak_x, o) ==
    IF Len(data.x) < 2 \/ Len(data.x) # Len(data.y) THEN Boundaries(NoBoundary, NoBoundary)
    ELSE boundaries_of(data, closest_index(data.x, peak_x), o,
                       vote_windows(data, closest_index(data.x, peak_x),
                                    find_noise_level(data.y),
                                    SelectSeq(DEFAULT_WINDOW_SIZES,
                                              LAMBDA win : win >= 5 /\ win % 2 = 1 /\ win <= Len(data.x)),
                                    <<ZeroVotes(Len(data.x)), ZeroVotes(Len(data.x))>>))

-----------------------------------------------------------------------------
(* find_peaks.rs: the candidates of the positions, and the passes that      *)
(* filter and merge them.                                                   *)

\* structs Peak (find_peaks.rs 47-60) and PeakCandidate (36-45); np is
\* number_of_points
Peak(from, to, rt, integral, intensity, ratio, np, noise) ==
    [from |-> from, to |-> to, rt |-> rt, integral |-> integral, intensity |-> intensity,
     ratio |-> ratio, np |-> np, noise |-> noise]

\* |v| <= 1 / k, for a finite v
AbsWithin(v, k) == Abs(v[1]) <= v[2] \div k

\* find_peaks.rs 1060-1061
fallback_tol(base) == RMin(RMax(RMul(<<1, 50>>, base), R(3)), R(250))

RECURSIVE fallback_left(_, _, _)
\* find_peaks.rs 1062-1065
fallback_left(y, l, tol) ==
    IF l > 0 /\ RLe(RAdd(At(y, l - 1), tol), At(y, l)) THEN fallback_left(y, l - 1, tol) ELSE l

RECURSIVE fallback_right(_, _, _)
\* find_peaks.rs 1066-1069
fallback_right(y, r, tol) ==
    IF r + 1 < Len(y) /\ RLe(RAdd(At(y, r + 1), tol), At(y, r)) THEN fallback_right(y, r + 1, tol)
    ELSE r

\* find_peaks.rs 1070-1082
fallback_pair(y, idx, l, r) ==
    IF l < r THEN <<l, r>>
    ELSE IF idx > 0 /\ idx + 1 < Len(y) THEN <<idx - 1, idx + 1>>
    ELSE IF idx + 1 < Len(y) THEN <<idx, idx + 1>>
    ELSE IF idx > 0 THEN <<idx - 1, idx>>
    ELSE <<0, 0>>

\* find_peaks.rs 1055-1083
fallback_bounds(y, idx) ==
    IF y = <<>> THEN <<0, 0>>
    ELSE fallback_pair(y, idx, fallback_left(y, idx, fallback_tol(RMax(RAbs(At(y, idx)), R(1)))),
                       fallback_right(y, idx, fallback_tol(RMax(RAbs(At(y, idx)), R(1)))))

\* find_peaks.rs 120-133: the candidate of rt between the indices fi and ti
candidate_between(data, rt, fi, fv, ti, tv, area, resolved_noise) ==
    <<Peak(fv, tv, rt, area[1], area[2], R(0), ti - fi + 1, resolved_noise)>>

candidate_at(data, rt, fi, fv, ti, tv, resolved_noise) ==
    candidate_between(data, rt, fi, fv, ti, tv,
                      xy_integration(SubSeq(data.x, fi + 1, ti + 1), SubSeq(data.y, fi + 1, ti + 1)),
                      resolved_noise)

\* find_peaks.rs 111-118
candidate_fallback(data, rt, lr, resolved_noise) ==
    IF lr[1] >= lr[2] THEN <<>>
    ELSE candidate_at(data, rt, lr[1], At(data.x, lr[1]), lr[2], At(data.x, lr[2]), resolved_noise)

\* find_peaks.rs 108-134: the candidate of a position, if it has one
candidate_of(data, rt, b, resolved_noise) ==
    IF /\ b.from.index # NoneV /\ b.from.value # NoneV /\ b.to.index # NoneV /\ b.to.value # NoneV
       /\ b.from.index[1] < b.to.index[1]
    THEN candidate_at(data, rt, b.from.index[1], b.from.value[1], b.to.index[1], b.to.value[1],
                      resolved_noise)
    ELSE candidate_fallback(data, rt, fallback_bounds(data.y, closest_index(data.x, rt)),
                            resolved_noise)

RECURSIVE candidates_of(_, _, _, _, _)
\* find_peaks.rs 107-134
candidates_of(data, positions, gb, resolved_noise, candidates) ==
    IF positions = <<>> THEN candidates
    ELSE candidates_of(data, Tail(positions), gb, resolved_noise,
                       candidates \o candidate_of(data, Head(positions),
                                                  get_boundaries(data, Head(positions), gb),
                                                  resolved_noise))

RECURSIVE sum_of_integrals(_, _)
\* find_peaks.rs 104, 121-123
sum_of_integrals(candidates, sum) ==
    IF candidates = <<>> THEN sum
    ELSE sum_of_integrals(Tail(candidates), RAdd(sum, Head(candidates).integral))

RECURSIVE max_intensity_of(_, _)
\* find_peaks.rs 139-144
max_intensity_of(candidates, max_intensity) ==
    IF candidates = <<>> THEN max_intensity
    ELSE max_intensity_of(Tail(candidates),
                          IF RGt(Head(candidates).intensity, max_intensity)
                          THEN Head(candidates).intensity ELSE max_intensity)

\* find_peaks.rs 288
ratio_of(p, sum) == IF RGt(sum, R(0)) THEN RDiv(p.integral, sum) ELSE R(0)

\* find_peaks.rs 279-305: a candidate passes
passes(p, opt, sum, tall_gate) ==
    /\ opt.intensity_threshold # NoneV => ~RLt(p.intensity, opt.intensity_threshold[1])
    /\ opt.integral_threshold # NoneV => ~RLt(ratio_of(p, sum), opt.integral_threshold[1])
    /\ opt.width_threshold # NoneV =>
           ~(p.np <= opt.width_threshold[1] /\ RLt(p.intensity, tall_gate))

\* find_peaks.rs 287-294: the ratio of a candidate that passes
with_ratio(p, opt, sum) ==
    IF opt.integral_threshold # NoneV THEN [p EXCEPT !.ratio = ratio_of(p, sum)] ELSE p

RECURSIVE filter_from(_, _, _, _, _)
filter_from(peaks, opt, sum, tall_gate, out) ==
    IF peaks = <<>> THEN out
    ELSE filter_from(Tail(peaks), opt, sum, tall_gate,
                     IF passes(Head(peaks), opt, sum, tall_gate)
                     THEN Append(out, with_ratio(Head(peaks), opt, sum)) ELSE out)

\* find_peaks.rs 269-309
filter_peak_candidates(peaks, opt, sum, max_intensity) ==
    filter_from(peaks, opt, sum, RMul(<<3, 5>>, max_intensity), <<>>)

RECURSIVE insert_by_rt(_, _)
insert_by_rt(sorted, p) ==
    IF sorted = <<>> THEN <<p>>
    ELSE IF RGt(Head(sorted).rt, p.rt) THEN <<p>> \o sorted
    ELSE <<Head(sorted)>> \o insert_by_rt(Tail(sorted), p)

RECURSIVE sort_peaks(_, _)
\* peaks.sort_by on rt (lines 153, 258, 507, 692), a stable sort
sort_peaks(peaks, sorted) ==
    IF peaks = <<>> THEN sorted ELSE sort_peaks(Tail(peaks), insert_by_rt(sorted, Head(peaks)))

\* find_peaks.rs 326-328
same_peak(p, q) ==
    /\ AbsWithin(RSub(p.from, q.from), 1000000)
    /\ AbsWithin(RSub(p.to, q.to), 1000000)
    /\ AbsWithin(RSub(p.rt, q.rt), 1000000)

RECURSIVE dedupe_run(_, _, _, _)
\* find_peaks.rs 324-337: <<j, keep_p>> after the run of peaks equal to peaks[i]
dedupe_run(peaks, i, j, keep_p) ==
    IF j < Len(peaks) /\ same_peak(At(peaks, i), At(peaks, j))
    THEN dedupe_run(peaks, i, j + 1,
                    IF RGt(At(peaks, j).intensity, keep_p.intensity) THEN At(peaks, j) ELSE keep_p)
    ELSE <<j, keep_p>>

RECURSIVE dedupe_from(_, _, _)
\* find_peaks.rs 320-340
dedupe_from(peaks, run, out) ==
    IF run[1] >= Len(peaks) THEN Append(out, run[2])
    ELSE dedupe_from(peaks, dedupe_run(peaks, run[1], run[1] + 1, At(peaks, run[1])),
                     Append(out, run[2]))

\* find_peaks.rs 311-342
dedupe_near_identical(peaks) ==
    IF Len(peaks) <= 1 THEN peaks
    ELSE dedupe_from(peaks, dedupe_run(peaks, 0, 1, At(peaks, 0)), <<>>)

\* find_peaks.rs 349-363 and 443-457: the window of the two merging passes
merge_window_odd(ws) == IF (IF ws % 2 = 0 THEN ws - 1 ELSE ws) < 5 THEN 21
                        ELSE IF ws % 2 = 0 THEN ws - 1 ELSE ws
merge_window(n) ==
    merge_window_odd(IF 33 > n THEN (IF n >= 5 THEN (IF n % 2 = 1 THEN n ELSE n - 1) ELSE 21)
                     ELSE 33)

\* find_peaks.rs 365-377, 459-497: the smoothed series or derivative when
\* the window fits, else the series itself or zeros
smoothed(data, ws, derivative) ==
    IF ws <= Len(data.y) THEN sgg(data.y, data.x, ws, derivative)
    ELSE IF derivative = 0 THEN data.y
    ELSE [i \in 1..Len(data.y) |-> R(0)]

\* the smallest of ys[l..r], with its first index: <<valley, vpos>>, from
\* <<+infinity, l>> (find_peaks.rs 390-398, 708-718)
RECURSIVE valley_in(_, _, _, _)
valley_in(ys, j, r, valley) ==
    IF j > r THEN valley
    ELSE valley_in(ys, j + 1, r, IF RLt(At(ys, j), valley[1]) THEN <<At(ys, j), j>> ELSE valley)

\* find_peaks.rs 400-407
wiggle(valley, h_max, noise) ==
    \/ RGt(valley, RMax(noise, RMul(<<23, 25>>, h_max)))
    \/ RLt(IF RGt(h_max, R(0)) THEN RDiv(RSub(h_max, valley), h_max) ELSE R(0), <<2, 25>>)

\* find_peaks.rs 410-422: the merge of cur and nxt
merged_wiggle(cur, nxt) ==
    IF RGt(nxt.intensity, cur.intensity)
    THEN [nxt EXCEPT !.from = RMin(nxt.from, cur.from), !.to = RMax(nxt.to, cur.to),
                     !.integral = RAdd(nxt.integral, cur.integral), !.np = nxt.np + cur.np]
    ELSE [cur EXCEPT !.from = RMin(cur.from, nxt.from), !.to = RMax(cur.to, nxt.to),
                     !.integral = RAdd(cur.integral, nxt.integral), !.np = cur.np + nxt.np]

\* find_peaks.rs 385-407
wiggle_between(ys, noise, cur, nxt, i0, i1) ==
    wiggle(valley_in(ys, Min(i0, i1), Max(i0, i1), <<RInf, Min(i0, i1)>>)[1],
           RMax(cur.intensity, nxt.intensity), noise)

RECURSIVE merge_wiggles_from(_, _, _, _, _, _)
\* find_peaks.rs 383-435
merge_wiggles_from(x, ys, noise, peaks, cur, out) ==
    IF peaks = <<>> THEN Append(out, cur)
    ELSE IF wiggle_between(ys, noise, cur, Head(peaks), closest_index(x, cur.rt),
                           closest_index(x, Head(peaks).rt))
    THEN merge_wiggles_from(x, ys, noise, Tail(peaks), merged_wiggle(cur, Head(peaks)), out)
    ELSE merge_wiggles_from(x, ys, noise, Tail(peaks), Head(peaks), Append(out, cur))

\* find_peaks.rs 344-436
merge_apex_wiggles(data, peaks, noise) ==
    IF Len(peaks) <= 1 THEN peaks
    ELSE merge_wiggles_from(data.x, smoothed(data, merge_window(Len(data.y)), 0), noise,
                            Tail(peaks), Head(peaks), <<>>)

-----------------------------------------------------------------------------
(* find_peaks.rs 438-651: merge_tail_groups.  c holds what the pass computes *)
(* once: x, ys, dy1, d2, dx_avg and noise.                                   *)

RECURSIVE total_variation(_, _, _, _)
\* find_peaks.rs 523-538: <<tvp, tvn>>
total_variation(ys, j, r, tv) ==
    IF j + 1 > r THEN tv
    ELSE total_variation(ys, j + 1, r,
                         IF RGt(RSub(At(ys, j + 1), At(ys, j)), R(0))
                         THEN <<RAdd(tv[1], RSub(At(ys, j + 1), At(ys, j))), tv[2]>>
                         ELSE <<tv[1], RAdd(tv[2], RNeg(RSub(At(ys, j + 1), At(ys, j))))>>)

\* find_peaks.rs 542, 596: frac_pos < 0.22, with frac_pos = tvp / (tvp + tvn
\* + f32::EPSILON); tvp and tvn are not negative, and 2^-23 is far below the
\* non-zero values of the model
tail_like(tv) == RLe(tv[1], RMul(<<11, 50>>, RAdd(tv[1], tv[2])))

\* find_peaks.rs 544-553, 591-595
valley_depth(intensity, minv) ==
    IF RGt(intensity, R(0)) THEN RDiv(RMax(RSub(intensity, minv), R(0)), intensity) ELSE R(0)

RECURSIVE base_run_max(_, _, _, _, _, _)
\* find_peaks.rs 556-569: base_max
base_run_max(ys, t, r, base_thr, base_run, base_max) ==
    IF t > r THEN Max(base_max, base_run)
    ELSE IF RLe(At(ys, t), base_thr) THEN base_run_max(ys, t + 1, r, base_thr, base_run + 1, base_max)
    ELSE base_run_max(ys, t + 1, r, base_thr, 0, Max(base_max, base_run))

\* find_peaks.rs 572-573
peak_width(p, dx_avg) == RMax(RAbs(RSub(p.to, p.from)), dx_avg)

\* find_peaks.rs 574-576
within_span(c, cur, nxt) ==
    /\ RLe(RSub(nxt.rt, cur.rt), RMul(R(4), peak_width(cur, c.dx_avg)))
    /\ RLe(RAbs(RSub(nxt.from, cur.to)), RMul(<<5, 2>>, peak_width(cur, c.dx_avg)))

\* find_peaks.rs 578-582
local_ratio(cur, nxt) ==
    IF RGt(cur.intensity, R(0)) THEN RDiv(nxt.intensity, cur.intensity) ELSE R(1)

\* find_peaks.rs 583-587
sn_next(c, nxt) == IF RGt(c.noise, R(0)) THEN RDiv(nxt.intensity, c.noise) ELSE RInf

\* find_peaks.rs 588
weak_local(c, cur, nxt) ==
    /\ RLt(local_ratio(cur, nxt), <<9, 20>>)
    /\ RLt(sn_next(c, nxt), R(10))
    /\ RLt(peak_width(nxt, c.dx_avg), RMul(<<11, 20>>, peak_width(cur, c.dx_avg)))

\* find_peaks.rs 504, 590
contiguous(c, cur, nxt) == RLe(RAbs(RSub(nxt.from, cur.to)), RMul(R(2), c.dx_avg))

\* find_peaks.rs 598-601
tail_bump_override(c, cur, nxt) ==
    /\ within_span(c, cur, nxt)
    /\ contiguous(c, cur, nxt)
    /\ RLt(peak_width(nxt, c.dx_avg), RMul(<<7, 10>>, peak_width(cur, c.dx_avg)))
    /\ (RLt(local_ratio(cur, nxt), <<1, 50>>) \/ RLt(sn_next(c, nxt), R(6)))

\* find_peaks.rs 512-513
slope_base(c) == RDiv(RMul(R(3), c.noise), at_least_eps(c.dx_avg))
curv_base(c) == RDiv(RMul(<<3, 2>>, c.noise), at_least_eps(RMul(c.dx_avg, c.dx_avg)))

\* find_peaks.rs 607, 611
rising(c, u, minv, rise_amp) ==
    /\ RGt(At(c.dy1, u), slope_base(c))
    /\ RGt(At(c.d2, u), curv_base(c))
    /\ RGt(RSub(At(c.ys, u), minv), rise_amp)

RECURSIVE rise_veto_from(_, _, _, _, _, _)
\* find_peaks.rs 608-622
rise_veto_from(c, u, r, minv, rise_amp, rise_run) ==
    IF u > r THEN FALSE
    ELSE IF rising(c, u, minv, rise_amp)
    THEN rise_run + 1 >= 6 \/ rise_veto_from(c, u + 1, r, minv, rise_amp, rise_run + 1)
    ELSE rise_veto_from(c, u + 1, r, minv, rise_amp, 0)

\* find_peaks.rs 625-631
base_merge(c, cur, nxt, l, r, minv) ==
    /\ ~rise_veto_from(c, l, r, minv,
                       RMax(RMul(<<1, 4>>, cur.intensity), RMul(R(12), c.noise)), 0)
    /\ ~(RGe(valley_depth(cur.intensity, minv), <<7, 20>>)
         /\ RGe(valley_depth(nxt.intensity, minv), <<7, 20>>))
    /\ ~(base_run_max(c.ys, l, r, RMul(R(2), c.noise), 0, 0) >= 10)
    /\ within_span(c, cur, nxt)
    /\ weak_local(c, cur, nxt)
    /\ tail_like(total_variation(c.ys, l, r, <<R(0), R(0)>>))
    /\ \/ contiguous(c, cur, nxt)
       \/ RGt(nxt.intensity, R(0)) /\ RLt(valley_depth(nxt.intensity, minv), <<3, 10>>)

\* find_peaks.rs 518-522, 632
do_merge(c, cur, nxt, l, r) ==
    \/ tail_bump_override(c, cur, nxt)
    \/ base_merge(c, cur, nxt, l, r, valley_in(c.ys, l, r, <<RInf, l>>)[1])

\* find_peaks.rs 635-643
merged_tail(cur, nxt) ==
    [cur EXCEPT !.intensity = IF RGt(nxt.intensity, cur.intensity) THEN nxt.intensity ELSE @,
                !.rt = IF RGt(nxt.intensity, cur.intensity) THEN nxt.rt ELSE @,
                !.to = RMax(@, nxt.to),
                !.integral = RAdd(@, nxt.integral),
                !.np = @ + nxt.np]

\* find_peaks.rs 518-521
merges_with(c, cur, nxt, i0, i1) == do_merge(c, cur, nxt, Min(i0, i1), Max(i0, i1))

RECURSIVE merge_tails_from(_, _, _, _)
\* find_peaks.rs 515-650
merge_tails_from(c, ps, cur, out) ==
    IF ps = <<>> THEN Append(out, cur)
    ELSE IF merges_with(c, cur, Head(ps), closest_index(c.x, cur.rt),
                        closest_index(c.x, Head(ps).rt))
    THEN merge_tails_from(c, Tail(ps), merged_tail(cur, Head(ps)), out)
    ELSE merge_tails_from(c, Tail(ps), Head(ps), Append(out, cur))

\* find_peaks.rs 459-504
tail_context(data, ws, noise) ==
    [x |-> data.x, ys |-> smoothed(data, ws, 0), dy1 |-> smoothed(data, ws, 1),
     d2 |-> smoothed(data, ws, 2),
     dx_avg |-> IF Len(data.y) > 1 THEN dx_avg_of(data.x) ELSE R(1), noise |-> noise]

\* find_peaks.rs 506-510
merge_sorted_tails(c, ps) == merge_tails_from(c, Tail(ps), Head(ps), <<>>)

\* find_peaks.rs 438-651
merge_tail_groups(data, peaks, noise) ==
    IF Len(peaks) <= 1 THEN peaks
    ELSE merge_sorted_tails(tail_context(data, merge_window(Len(data.y)), noise),
                            sort_peaks(peaks, <<>>))

-----------------------------------------------------------------------------
(* find_peaks.rs 653-794: prune_overlaps_by_valley                          *)

\* find_peaks.rs 659-664
prune_window(n) ==
    IF 21 <= n THEN 21 ELSE IF n % 2 = 1 THEN n ELSE Max(n - 1, 0)

\* find_peaks.rs 665-677
prune_smoothed(data, ws) ==
    IF ws >= 5 /\ ws <= Len(data.y) THEN sgg(data.y, data.x, ws, 0) ELSE data.y

\* find_peaks.rs 679-690
prune_min_sep(dx_min) == IF r_is_finite(dx_min) THEN RMul(<<21, 20>>, dx_min) ELSE <<1, 50>>

\* find_peaks.rs 720-729
valley_drop(intensity, valley) ==
    IF RGt(intensity, R(0)) THEN RDiv(RSub(intensity, valley), intensity) ELSE R(0)

\* find_peaks.rs 731-736
req_drop(k, p) ==
    IF RLt(IF RGt(k.intensity, p.intensity) THEN RDiv(p.intensity, k.intensity)
           ELSE RDiv(k.intensity, p.intensity), <<2, 5>>)
    THEN <<1, 4>> ELSE <<2, 25>>

\* find_peaks.rs 738
keep_both(k, p, valley, noise) ==
    \/ RGe(valley_drop(k.intensity, valley), req_drop(k, p))
       /\ RGe(valley_drop(p.intensity, valley), req_drop(k, p))
    \/ RLe(valley, noise)

\* find_peaks.rs 745-749 and 754-758: np from the indices of the ends
recount(p, li, ri) == IF ri >= li THEN [p EXCEPT !.np = ri - li + 1] ELSE p

\* find_peaks.rs 743-750
cut_to(x, k, vx) ==
    IF RGt(vx, k.from) /\ RLt(vx, k.to)
    THEN recount([k EXCEPT !.to = vx], closest_index(x, k.from), closest_index(x, vx))
    ELSE k

\* find_peaks.rs 752-759
cut_from(x, p, vx) ==
    IF RGt(vx, p.from) /\ RLt(vx, p.to)
    THEN recount([p EXCEPT !.from = vx], closest_index(x, vx), closest_index(x, p.to))
    ELSE p

\* find_peaks.rs 764-778: |a - b| < f64::EPSILON is a = b for the fractions
\* of the model
choose_p(k, p) ==
    \/ RGt(p.intensity, k.intensity)
    \/ /\ p.intensity = k.intensity
       /\ \/ RGt(p.integral, k.integral)
          \/ /\ p.integral = k.integral
             /\ RLt(RAbs(RSub(p.to, p.from)), RAbs(RSub(k.to, k.from)))

\* find_peaks.rs 699-700
overlapping(k, p, min_sep) ==
    \/ RLt(p.from, k.to) /\ RGt(p.to, k.from)
    \/ RLt(RAbs(RSub(p.rt, k.rt)), min_sep)

\* find_peaks.rs 703-718: <<valley, vpos>> between the two apexes
valley_of_pair(ys, i0, i1) == valley_in(ys, Min(i0, i1), Max(i0, i1), <<RInf, Min(i0, i1)>>)

\* find_peaks.rs 697-788: <<out, cur>> after p, when cur is k
prune_step(x, noise, k, p, valley, out) ==
    IF keep_both(k, p, valley[1], noise)
    THEN <<Append(out, cut_to(x, k, At(x, valley[2]))), cut_from(x, p, At(x, valley[2]))>>
    ELSE <<out, IF choose_p(k, p) THEN p ELSE k>>

RECURSIVE prune_from(_, _, _, _, _, _)
prune_from(x, ys, noise, min_sep, ps, oc) ==
    IF ps = <<>> THEN Append(oc[1], oc[2])
    ELSE IF overlapping(oc[2], Head(ps), min_sep)
    THEN prune_from(x, ys, noise, min_sep, Tail(ps),
                    prune_step(x, noise, oc[2], Head(ps),
                               valley_of_pair(ys, closest_index(x, oc[2].rt),
                                              closest_index(x, Head(ps).rt)), oc[1]))
    ELSE prune_from(x, ys, noise, min_sep, Tail(ps), <<Append(oc[1], oc[2]), Head(ps)>>)

\* find_peaks.rs 691-793
prune_sorted(data, ps, noise) ==
    prune_from(data.x, prune_smoothed(data, prune_window(Len(data.y))), noise,
               prune_min_sep(dx_min_from(data.x, 0, RInf)), Tail(ps), <<<<>>, Head(ps)>>)

\* find_peaks.rs 653-794
prune_overlaps_by_valley(data, peaks, noise) ==
    IF Len(peaks) <= 1 THEN peaks ELSE prune_sorted(data, sort_peaks(peaks, <<>>), noise)

-----------------------------------------------------------------------------
(* find_peaks.rs 796-990: extend_tails.  c holds x, ys (ys0), dy1, d2,       *)
(* dx_avg and noise; g holds the gates of one peak.                         *)

\* find_peaks.rs 802-815
tails_window(n) ==
    merge_window_odd(IF 51 > n THEN (IF n >= 5 THEN (IF n % 2 = 1 THEN n ELSE n - 1) ELSE 21)
                     ELSE 51)

\* find_peaks.rs 868-874
tail_gates(c, p) ==
    [floor |-> RMax(RMul(<<3, 2>>, c.noise), RMul(<<3, 1000>>, p.intensity)),
     rise_amp |-> RMax(RMul(R(8), c.noise), RMul(<<1, 10>>, p.intensity)),
     slope_gate |-> slope_base(c), curv_gate |-> curv_base(c)]

\* a slice s[a..=b] of the code, for a <= b + 1
Slice(s, a, b) == SubSeq(s, a + 1, b + 1)

\* find_peaks.rs 914 and 964, for sign -1 on the left and 1 on the right
tail_rising(c, g, j, sign, minv) ==
    /\ RGt(IF sign < 0 THEN RNeg(At(c.dy1, j)) ELSE At(c.dy1, j), g.slope_gate)
    /\ RGt(At(c.d2, j), g.curv_gate)
    /\ RGt(RSub(At(c.ys, j), minv), g.rise_amp)

RECURSIVE tail_walk(_, _, _, _, _, _, _, _)
RECURSIVE tail_walk_min(_, _, _, _, _, _, _, _)
\* find_peaks.rs 897-926 (sign -1, to guard_left) and 947-976 (sign 1, to
\* guard_right): stop_at
tail_walk(c, g, j, sign, guard, m, below_run, rise_run) ==
    IF (sign < 0 /\ j <= guard) \/ (sign > 0 /\ j + 1 > guard) THEN j
    ELSE tail_walk_min(c, g, j, sign, guard,
                       IF RLt(At(c.ys, j), m[1]) THEN <<At(c.ys, j), j>> ELSE m,
                       IF RLe(At(c.ys, j), g.floor) THEN below_run + 1 ELSE 0, rise_run)

\* the step at j, with minv, minpos and below_run updated
tail_walk_min(c, g, j, sign, guard, m, below_run, rise_run) ==
    IF below_run >= 14 THEN j
    ELSE IF tail_rising(c, g, j, sign, m[1])
    THEN (IF rise_run + 1 >= 7 THEN m[2]
          ELSE tail_walk(c, g, j + sign, sign, guard, m, below_run, rise_run + 1))
    ELSE tail_walk(c, g, j + sign, sign, guard, m, below_run, 0)

\* find_peaks.rs 927-934
set_from(c, data, p, ri0, new_from_i, li0) ==
    IF new_from_i < li0
    THEN [p EXCEPT !.from = At(data.x, new_from_i),
                   !.integral = xy_integration(Slice(data.x, new_from_i, ri0),
                                               Slice(data.y, new_from_i, ri0))[1],
                   !.np = ri0 - new_from_i + 1]
    ELSE p

\* find_peaks.rs 890-935
extend_left(c, g, data, p, li0, ri0, guard_left) ==
    IF li0 > guard_left
    THEN set_from(c, data, p, ri0,
                  Max(tail_walk(c, g, li0, 0 - 1, guard_left, <<At(c.ys, li0), li0>>, 0, 0),
                      guard_left), li0)
    ELSE p

\* find_peaks.rs 977-983
set_to(c, data, p, li1, new_to_i) ==
    IF new_to_i > li1
    THEN [p EXCEPT !.to = At(data.x, new_to_i),
                   !.integral = xy_integration(Slice(data.x, li1, new_to_i),
                                               Slice(data.y, li1, new_to_i))[1],
                   !.np = new_to_i - li1 + 1]
    ELSE p

\* find_peaks.rs 937-984
extend_right(c, g, data, p, li1, ri1, guard_right) ==
    IF ri1 < guard_right
    THEN set_to(c, data, p, li1,
                Min(tail_walk(c, g, ri1, 1, guard_right, <<At(c.ys, ri1), ri1>>, 0, 0),
                    guard_right))
    ELSE p

\* find_peaks.rs 937-938
extend_right_of(c, g, data, p, guard_right) ==
    extend_right(c, g, data, p, closest_index(data.x, p.from), closest_index(data.x, p.to),
                 guard_right)

\* the two walks without the guards of the neighbours: as far as the ends of the series
extend_one_Unguarded(c, data, peaks, i) ==
    extend_right_of(c, tail_gates(c, At(peaks, i)), data,
                    extend_left(c, tail_gates(c, At(peaks, i)), data, At(peaks, i),
                                closest_index(data.x, At(peaks, i).from),
                                closest_index(data.x, At(peaks, i).to), 0),
                    Len(data.y) - 1)

\* find_peaks.rs 866-986: the peak i after its two walks
extend_one(c, data, peaks, i) ==
    extend_right_of(c, tail_gates(c, At(peaks, i)), data,
                    extend_left(c, tail_gates(c, At(peaks, i)), data, At(peaks, i),
                                closest_index(data.x, At(peaks, i).from),
                                closest_index(data.x, At(peaks, i).to),
                                IF i > 0 THEN closest_index(data.x, At(peaks, i - 1).to) ELSE 0),
                    IF i + 1 < Len(peaks) THEN closest_index(data.x, At(peaks, i + 1).from)
                    ELSE Len(data.y) - 1)

RECURSIVE extend_from(_, _, _, _)
\* find_peaks.rs 865-987
extend_from(c, data, peaks, i) ==
    IF i >= Len(peaks) THEN peaks
    ELSE extend_from(c, data, [peaks EXCEPT ![i + 1] = extend_one(c, data, peaks, i)], i + 1)

\* find_peaks.rs 796-990
extend_tails(data, peaks, noise) ==
    IF Len(data.y) = 0 \/ peaks = <<>> THEN peaks
    ELSE extend_from(tail_context(data, tails_window(Len(data.y)), noise), data,
                     sort_peaks(peaks, <<>>), 0)

-----------------------------------------------------------------------------
(* find_peaks.rs 1085-1136: coalesce_tiny_tail_bumps                        *)

\* find_peaks.rs 1107-1119
tiny_bump(cur, p, dx_avg, noise) ==
    /\ RLe(RAbs(RSub(p.from, cur.to)), RMul(R(2), dx_avg))
    /\ \/ RLt(local_ratio(cur, p), <<1, 50>>)
       \/ RGt(noise, R(0)) /\ RLt(p.intensity, RMul(R(6), noise))
    /\ RLt(peak_width(p, dx_avg), RMul(<<4, 5>>, peak_width(cur, dx_avg)))

\* find_peaks.rs 1120-1128
merged_bump(cur, p) ==
    [cur EXCEPT !.to = RMax(@, p.to),
                !.integral = RAdd(@, p.integral),
                !.np = @ + p.np,
                !.intensity = IF RGt(p.intensity, cur.intensity) THEN p.intensity ELSE @,
                !.rt = IF RGt(p.intensity, cur.intensity) THEN p.rt ELSE @]

RECURSIVE coalesce_from(_, _, _, _, _)
\* find_peaks.rs 1104-1135
coalesce_from(ps, cur, dx_avg, noise, out) ==
    IF ps = <<>> THEN Append(out, cur)
    ELSE IF tiny_bump(cur, Head(ps), dx_avg, noise)
    THEN coalesce_from(Tail(ps), merged_bump(cur, Head(ps)), dx_avg, noise, out)
    ELSE coalesce_from(Tail(ps), Head(ps), dx_avg, noise, Append(out, cur))

\* find_peaks.rs 1098-1102
coalesce_sorted(ps, dx_avg, noise) == coalesce_from(Tail(ps), Head(ps), dx_avg, noise, <<>>)

\* find_peaks.rs 1085-1136
coalesce_tiny_tail_bumps(data, peaks, noise) ==
    IF Len(peaks) <= 1 THEN peaks
    ELSE coalesce_sorted(sort_peaks(peaks, <<>>),
                         IF Len(data.x) > 1 THEN dx_avg_of(data.x) ELSE R(1), noise)

-----------------------------------------------------------------------------
(* find_peaks.rs 186-260 and 992-1053: the two passes that drop a peak      *)
(* because of a taller one.  Peaks are numbered from 1 here.                *)

RECURSIVE insert_by_intensity(_, _, _)
\* i placed after the indices of peaks that are not less intense
insert_by_intensity(peaks, order, i) ==
    IF order = <<>> THEN <<i>>
    ELSE IF RGt(peaks[i].intensity, peaks[Head(order)].intensity) THEN <<i>> \o order
    ELSE <<Head(order)>> \o insert_by_intensity(peaks, Tail(order), i)

RECURSIVE order_by_intensity(_, _, _)
\* find_peaks.rs 187-193, 997-1003: the indices by decreasing intensity, a stable sort
order_by_intensity(peaks, i, order) ==
    IF i > Len(peaks) THEN order
    ELSE order_by_intensity(peaks, i + 1, insert_by_intensity(peaks, order, i))

\* the indices that follow position a_idx of order
After(order, a_idx) == {order[q] : q \in (a_idx + 1)..Len(order)}

RECURSIVE suppress_from(_, _, _, _)
\* find_peaks.rs 201-251, 1018-1043: keep, where drops[ia][ib] is that peak ia
\* drops peak ib
suppress_from(order, drops, a_idx, keep) ==
    IF a_idx > Len(order) THEN keep
    ELSE IF ~keep[order[a_idx]] THEN suppress_from(order, drops, a_idx + 1, keep)
    ELSE suppress_from(order, drops, a_idx + 1,
                       [ib \in DOMAIN keep |->
                           keep[ib] /\ ~(ib \in After(order, a_idx) /\ drops[order[a_idx]][ib])])

RECURSIVE kept_from(_, _, _, _)
\* find_peaks.rs 252-257, 1045-1050
kept_from(peaks, keep, i, out) ==
    IF i > Len(peaks) THEN out
    ELSE kept_from(peaks, keep, i + 1, IF keep[i] THEN Append(out, peaks[i]) ELSE out)

\* find_peaks.rs 252-259, 1045-1052
kept_by_rt(peaks, keep) == sort_peaks(kept_from(peaks, keep, 1, <<>>), <<>>)

\* find_peaks.rs 207-211
apex_width(a, dx_min) ==
    RMax(RAbs(RSub(a.to, a.from)), IF r_is_finite(dx_min) THEN RMul(R(2), dx_min) ELSE <<1, 100>>)

\* find_peaks.rs 233-246
valley_low(y, iax, ibx, resolved_noise) ==
    RLe(valley_in(y, Min(iax, ibx), Max(iax, ibx), <<RInf, Min(iax, ibx)>>)[1],
        RMul(<<3, 2>>, resolved_noise))

\* find_peaks.rs 216-249: a drops b
apex_drops(data, a, b, dx_min, resolved_noise) ==
    /\ RGe(b.rt, a.from) /\ RLe(b.rt, a.to)
    /\ RLe(RAbs(RSub(a.rt, b.rt)), RMul(<<3, 4>>, apex_width(a, dx_min)))
    /\ (RGt(a.intensity, R(0)) => RLt(RDiv(b.intensity, a.intensity), <<1, 4>>))
    /\ valley_low(data.y, closest_index(data.x, a.rt), closest_index(data.x, b.rt), resolved_noise)

\* find_peaks.rs 186-260
suppress_small_in_apex(data, peaks, resolved_noise) ==
    kept_by_rt(peaks,
              suppress_from(order_by_intensity(peaks, 1, <<>>),
                            [ia \in DOMAIN peaks |-> [ib \in DOMAIN peaks |->
                                apex_drops(data, peaks[ia], peaks[ib],
                                           dx_min_from(data.x, 0, RInf), resolved_noise)]],
                            1, [i \in DOMAIN peaks |-> TRUE]))

\* find_peaks.rs 1029-1041: a drops b
contained_drops(a, b, eps) ==
    \/ RLe(RAbs(RSub(b.to, b.from)), eps)
    \/ RGe(RMax(RSub(RMin(a.to, b.to), RMax(a.from, b.from)), R(0)),
           RMul(<<9, 10>>, RAbs(RSub(b.to, b.from))))

\* find_peaks.rs 1005-1016
contained_eps(dx_min) == IF r_is_finite(dx_min) THEN RMul(R(2), dx_min) ELSE <<1, 100>>

\* find_peaks.rs 992-1053
suppress_contained_peaks(data, peaks) ==
    IF Len(peaks) <= 1 THEN peaks
    ELSE kept_by_rt(peaks,
                   suppress_from(order_by_intensity(peaks, 1, <<>>),
                                 [ia \in DOMAIN peaks |-> [ib \in DOMAIN peaks |->
                                     contained_drops(peaks[ia], peaks[ib],
                                                     contained_eps(dx_min_from(data.x, 0, RInf)))]],
                                 1, [i \in DOMAIN peaks |-> TRUE]))

-----------------------------------------------------------------------------
(* find_peaks.rs 78-267: find_peaks                                         *)

\* the Default impls of the option structs (get_boundaries.rs 25-32,
\* scan_for_peaks.rs 10-17, find_peaks.rs 21-33 and 68-76)
DefaultBoundariesOptions == BoundariesOptions(EPS, 17)
DefaultScanPeaksOptions == ScanPeaksOptions(EPS, 11)
DefaultFilterPeaksOptions ==
    FilterPeaksOptions(NoneV, Some(5), NoneV, NoneV, Some(FALSE), Some(FALSE), Some(R(1)))
DefaultFindPeaksOptions ==
    FindPeaksOptions(Some(DefaultBoundariesOptions), Some(DefaultFilterPeaksOptions), NoneV)

\* Option::unwrap_or
unwrap_or(opt, def_) == IF opt = NoneV THEN def_ ELSE opt[1]

\* find_peaks without the guard of lines 84-86
noise_conflict_Unchecked(filter_opts) == FALSE

\* find_peaks.rs 82-86: the call panics
noise_conflict(filter_opts) == unwrap_or(filter_opts.auto_noise, FALSE) /\ filter_opts.noise # NoneV

\* find_peaks.rs 88-89 and 91-92
positive_or_zero(n) == IF r_is_finite(n) /\ RGt(n, R(0)) THEN n ELSE R(0)

\* find_peaks.rs 87-95
resolved_noise_of(data, filter_opts) ==
    IF unwrap_or(filter_opts.auto_noise, FALSE) THEN positive_or_zero(find_noise_level(data.y))
    ELSE IF filter_opts.noise # NoneV THEN positive_or_zero(filter_opts.noise[1])
    ELSE R(0)

\* find_peaks.rs 97-98
positions_of(data, o) ==
    scan_for_peaks_across_windows(data, unwrap_or(o.scan_peaks_options, DefaultScanPeaksOptions),
                                  DEFAULT_WINDOW_SIZES)

\* find_peaks.rs 103-134
peak_candidates(data, o, positions, resolved_noise) ==
    candidates_of(data, positions, unwrap_or(o.get_boundaries_options, DefaultBoundariesOptions),
                  resolved_noise, <<>>)

\* find_peaks.rs 139-154: the candidates that pass, by rt, without repeats
filtered(candidates, filter_opts) ==
    dedupe_near_identical(
        sort_peaks(filter_peak_candidates(
                       candidates, filter_opts,
                       IF filter_opts.integral_threshold # NoneV
                       THEN sum_of_integrals(candidates, R(0)) ELSE R(0),
                       max_intensity_of(candidates, R(0))), <<>>))

\* find_peaks.rs 156-158
wiggles_merged(data, peaks, resolved_noise) ==
    IF Len(peaks) > 1 THEN merge_apex_wiggles(data, peaks, resolved_noise) ELSE peaks

\* find_peaks.rs 159-161
tails_merged(data, peaks, resolved_noise) ==
    IF Len(peaks) > 1 THEN merge_tail_groups(data, peaks, resolved_noise) ELSE peaks

\* find_peaks.rs 163-165
pruned(data, peaks, filter_opts, resolved_noise) ==
    IF ~unwrap_or(filter_opts.allow_overlap, FALSE) /\ Len(peaks) > 1
    THEN prune_overlaps_by_valley(data, peaks, resolved_noise) ELSE peaks

\* find_peaks.rs 168-175
cutoff_of(filter_opts, resolved_noise) ==
    IF filter_opts.intensity_threshold = NoneV
    THEN (IF RGt(resolved_noise, R(0))
          THEN RMul(unwrap_or(filter_opts.sn_ratio, R(1)), resolved_noise) ELSE R(0))
    ELSE RMax(IF RGt(resolved_noise, R(0))
              THEN RMul(unwrap_or(filter_opts.sn_ratio, R(1)), resolved_noise) ELSE R(0),
              filter_opts.intensity_threshold[1])

\* find_peaks.rs 167-179
above_cutoff(peaks, cutoff) ==
    IF peaks # <<>> /\ RGt(cutoff, R(0)) THEN SelectSeq(peaks, LAMBDA p : RGe(p.intensity, cutoff))
    ELSE peaks

\* find_peaks.rs 181-184
tails_extended(data, peaks, resolved_noise) ==
    IF peaks # <<>>
    THEN coalesce_tiny_tail_bumps(data, extend_tails(data, peaks, resolved_noise), resolved_noise)
    ELSE peaks

\* find_peaks.rs 186-260
apex_suppressed(data, peaks, resolved_noise) ==
    IF Len(peaks) > 1 THEN suppress_small_in_apex(data, peaks, resolved_noise) ELSE peaks

\* find_peaks.rs 262-264
contained_suppressed(data, peaks) ==
    IF Len(peaks) > 1 THEN suppress_contained_peaks(data, peaks) ELSE peaks

\* find_peaks.rs 153-266: the peaks of the candidates that passed
peaks_of_filtered(data, filter_opts, resolved_noise, peaks) ==
    contained_suppressed(data,
        apex_suppressed(data,
            tails_extended(data,
                above_cutoff(pruned(data,
                                    tails_merged(data, wiggles_merged(data, peaks, resolved_noise),
                                                 resolved_noise),
                                    filter_opts, resolved_noise),
                             cutoff_of(filter_opts, resolved_noise)),
                resolved_noise),
            resolved_noise))

\* find_peaks.rs 135-137
peaks_of_candidates(data, filter_opts, resolved_noise, candidates) ==
    IF candidates = <<>> THEN <<>>
    ELSE peaks_of_filtered(data, filter_opts, resolved_noise, filtered(candidates, filter_opts))

\* find_peaks.rs 99-101
peaks_of_positions(data, o, filter_opts, resolved_noise, positions) ==
    IF positions = <<>> THEN <<>>
    ELSE peaks_of_candidates(data, filter_opts, resolved_noise,
                             peak_candidates(data, o, positions, resolved_noise))

\* find_peaks.rs 87-266
peaks_with(data, o, filter_opts) ==
    peaks_of_positions(data, o, filter_opts, resolved_noise_of(data, filter_opts),
                       positions_of(data, o))

\* find_peaks.rs 80-86
find_peaks_with(data, o, filter_opts) ==
    IF noise_conflict(filter_opts)
    THEN Panic("Filter peaks: auto_noise=true is incompatible with a defined noise.")
    ELSE Ok(peaks_with(data, o, filter_opts))

\* find_peaks.rs 78-267: Ok(the peaks), or the panic
find_peaks(data, options) ==
    find_peaks_with(data, unwrap_or(options, DefaultFindPeaksOptions),
                    unwrap_or(unwrap_or(options, DefaultFindPeaksOptions).filter_peaks_options,
                              DefaultFilterPeaksOptions))

-----------------------------------------------------------------------------
(* find_peaks as a state machine: one call, from Rust or through the C entry
   point of lib.rs *)

\* the intensities of a series
Levels == {0 - 4, 0, 4}
\* the number of samples of a series
SeriesLen == 6
\* the last sampling step: the one of the steps before it, or a shorter one
LastSteps == {R(1), <<1, 4>>}

\* the sampling times 0, 1, .., n - 2 and one more after a step of last
grid(n, last) == [i \in 1..n |-> IF i < n THEN R(i - 1) ELSE RAdd(R(n - 2), last)]

series(n, y) == [i \in 1..n |-> R(y[i])]

PeakGrids == {grid(SeriesLen, last) : last \in LastSteps}
\* a narrow bump and, three samples later, a plateau that runs to the end
BumpAndPlateau == DataXY(grid(8, R(1)), series(8, <<0, 4, 0, 0, 0, 4, 4, 4>>))

\* every series of SeriesLen samples on the grids, and the bump and plateau
PeakSeries ==
    {DataXY(x, series(SeriesLen, y)) : x \in PeakGrids, y \in [1..SeriesLen -> Levels]}
        \cup {BumpAndPlateau}

\* FilterPeaksOptions { width_threshold, noise, auto_noise, ..Default::default() }
FilterWith(width, noise, auto_noise) ==
    FilterPeaksOptions(NoneV, width, NoneV, noise, Some(auto_noise), Some(FALSE), Some(R(1)))

PeakFilters ==
    {FilterWith(NoneV, NoneV, FALSE), FilterWith(Some(5), Some(R(1)), FALSE),
     FilterWith(Some(5), Some(R(1)), TRUE)}

\* the options of a call from Rust: None, or Some(FindPeaksOptions)
PeakOptions ==
    {NoneV} \cup {Some(FindPeaksOptions(Some(DefaultBoundariesOptions), Some(f), NoneV)) :
                     f \in PeakFilters}

\* a call: from Rust, find_peaks(&data, options) with options None or
\* Some(FindPeaksOptions); through the C entry point, find_peaks(x_ptr, y_ptr,
\* len, options, out_json) with the len samples behind x_ptr and y_ptr, options
\* null or a CPeakPOptions, and nulls telling which of x_ptr, y_ptr and
\* out_json is null
FindPeaksCall(via, nulls, data, options) ==
    [via |-> via, nulls |-> nulls, data |-> data, options |-> options]

\* CPeakPOptions with a noise and an auto_noise flag, the other fields zeroed
CNoiseOptions(noise, auto_noise) == CPeakPOptions(R(0), R(0), 0, noise, auto_noise, 0, 0, R(0))

FfiPeakOptions ==
    {NoneV} \cup {Some(CNoiseOptions(noise, auto_noise)) :
                     noise \in {R(0), R(1), RNaN}, auto_noise \in {0, 1}}

\* series of non-negative intensities on the uniform grid, and one of two samples
FfiSeries ==
    {d \in PeakSeries : d.x = grid(SeriesLen, R(1)) /\ \A i \in 1..SeriesLen : d.y[i] # R(0 - 4)}
        \cup {DataXY(grid(2, R(1)), series(2, <<0, 4>>))}

NoNull == <<FALSE, FALSE, FALSE>>
OneNull == {<<TRUE, FALSE, FALSE>>, <<FALSE, TRUE, FALSE>>, <<FALSE, FALSE, TRUE>>}

FindPeaksCalls ==
    {FindPeaksCall("rust", NoNull, d, o) : d \in PeakSeries, o \in PeakOptions}
        \cup {FindPeaksCall("ffi", NoNull, d, o) : d \in FfiSeries, o \in FfiPeakOptions}
        \cup {FindPeaksCall("ffi", nulls,
                          DataXY(grid(SeriesLen, R(1)), series(SeriesLen, <<0, 0, 4, 4, 0, 0>>)),
                          NoneV) : nulls \in OneNull}

\* the caller holds the arguments of the call it is about to make
InitPeaks ==
    /\ doc = MzML(NoneV)
    /\ buf = <<>>
    /\ origin = "none"
    /\ res = Pending
    /\ buf2 = <<>>
    /\ overflow_checks = TRUE
    /\ eic_in = <<>>
    /\ eic_out = Pending
    /\ pk_in = <<>>
    /\ pool = <<>>
    /\ pk_out = Pending
    /\ ffi = <<>>
    /\ fp_in \in FindPeaksCalls
    /\ fp_out = Pending
    /\ ff_in = <<>>
    /\ ff_out = Pending
    /\ pd_in = <<>>
    /\ pd_out = Pending

\* find_peaks(&data, options), called from Rust
FindPeaks ==
    /\ fp_in.via = "rust"
    /\ fp_out.tag = "pending"
    /\ fp_out' = find_peaks(fp_in.data, fp_in.options)
    /\ UNCHANGED <<codec_vars, eic_vars, pk_in, pool, pk_out, ffi, fp_in, ff_in, ff_out, pd_in, pd_out>>

\* lib.rs 407-409 and 413-415: the arguments the entry point rejects before
\* find_peaks is called (x_ptr and y_ptr are read with the one len)
invalid_args(c) == c.nulls # NoNull \/ Len(c.data.x) < 3

\* lib.rs 420-421: what find_peaks returns to the entry point, if it is called
ffi_find_peaks(c) ==
    IF invalid_args(c) THEN Pending
    ELSE find_peaks(c.data, Some(build_find_peaks_options(c.options)))

\* lib.rs 407-445: the code returned
ffi_code(c, r) == IF invalid_args(c) THEN ERR_INVALID_ARGS ELSE CodeOf(r, ERR_PARSE)

\* find_peaks(x_ptr, y_ptr, len, options, out_json), the C entry point
FfiFindPeaks ==
    /\ fp_in.via = "ffi"
    /\ ffi = <<>>
    /\ fp_out' = ffi_find_peaks(fp_in)
    /\ ffi' = FfiReturn("find_peaks", ffi_code(fp_in, fp_out'))
    /\ UNCHANGED <<codec_vars, eic_vars, pk_in, pool, pk_out, fp_in, ff_in, ff_out, pd_in, pd_out>>

PeaksNext == FindPeaks \/ FfiFindPeaks

SpecPeaks == InitPeaks /\ [][PeaksNext]_vars

\* the options find_peaks receives in the call
options_of(c) ==
    IF c.via = "ffi" THEN Some(build_find_peaks_options(c.options)) ELSE c.options

\* the options find_peaks received ask for auto_noise and define a noise
conflicting(options) ==
    /\ options # NoneV
    /\ options[1].filter_peaks_options # NoneV
    /\ options[1].filter_peaks_options[1].auto_noise = Some(TRUE)
    /\ options[1].filter_peaks_options[1].noise # NoneV

\* find_peaks was called, and with conflicting options
ConflictingCall == fp_out.tag # "pending" /\ conflicting(options_of(fp_in))

\* C17: a call of find_peaks with auto_noise = true and a defined noise ends in
\* the panic of the guard, with no peak computed, and when the call came
\* through the C entry point the entry point returns ERR_PANIC (2) and has not
\* written out_json.
C17_ConflictPanics ==
    ConflictingCall =>
        /\ fp_out.tag = "panic"
        /\ fp_out.msg = "Filter peaks: auto_noise=true is incompatible with a defined noise."
        /\ fp_in.via = "ffi" => ffi = [fn |-> "find_peaks", code |-> ERR_PANIC, written |-> FALSE]

\* the C entry point was called with auto_noise = 1 and noise = 1 on a series
\* of SeriesLen samples, and has returned 2 without writing out_json
C17_Witness ==
    /\ ConflictingCall
    /\ fp_in.via = "ffi"
    /\ Len(fp_in.data.x) = SeriesLen
    /\ fp_in.options = Some(CNoiseOptions(R(1), 1))
    /\ ffi # <<>>
    /\ ffi.code = 2
    /\ ~ffi.written

\* find_peaks returned its vector
PeaksReturned == fp_out.tag = "ok"

\* the peaks are in non-decreasing order of rt
sorted_by_rt(peaks) == \A i \in 1..(Len(peaks) - 1) : RLe(peaks[i].rt, peaks[i + 1].rt)

\* the apex of the peak is strictly inside its bounds, and it has a sample
apex_inside(p) == RLt(p.from, p.rt) /\ RLt(p.rt, p.to) /\ p.np >= 1

\* C18: the vector find_peaks returns is sorted by rt in non-decreasing order,
\* and every peak of it has from < rt < to and np >= 1.
C18_SortedWithApexInside ==
    PeaksReturned =>
        /\ sorted_by_rt(fp_out.v)
        /\ \A i \in 1..Len(fp_out.v) : apex_inside(fp_out.v[i])

\* the number of samples of x in [from, to]
samples_in(x, from, to) == Cardinality({i \in 1..Len(x) : RLe(from, x[i]) /\ RLe(x[i], to)})

\* C19: np of every peak find_peaks returns is the number of samples of x
\* that lie in [from, to] of the peak.
C19_NpCountsSamples ==
    PeaksReturned =>
        \A i \in 1..Len(fp_out.v) :
            fp_out.v[i].np = samples_in(fp_in.data.x, fp_out.v[i].from, fp_out.v[i].to)

\* max(sn_ratio * noise, intensity_threshold) of the filter options, noise
\* being the resolved noise of the call
required_intensity(data, f) ==
    RMax(RMul(IF f.sn_ratio = NoneV THEN R(1) ELSE f.sn_ratio[1], resolved_noise_of(data, f)),
         IF f.intensity_threshold = NoneV THEN R(0) ELSE f.intensity_threshold[1])

\* the filter options of the call
filter_of(options) ==
    IF options = NoneV \/ options[1].filter_peaks_options = NoneV THEN DefaultFilterPeaksOptions
    ELSE options[1].filter_peaks_options[1]

\* C20: every peak find_peaks returns has an intensity of at least
\* max(sn_ratio * noise, intensity_threshold), noise being the resolved noise.
C20_IntensityAtLeastCutoff ==
    PeaksReturned =>
        \A i \in 1..Len(fp_out.v) :
            RGe(fp_out.v[i].intensity, required_intensity(fp_in.data, filter_of(options_of(fp_in))))

-----------------------------------------------------------------------------
(* A time window without MS1 scans: calculate_eic_from_mzml,
   get_peaks_from_eic and find_features on the same run and window *)

\* MzScanGrid; m/z is counted in units of 0.005 Da, as in the EIC model
MzScanGrid(mz_min, mz_max, step_size) ==
    [mz_min |-> mz_min, mz_max |-> mz_max, step_size |-> step_size]

\* find_features.rs 29-37: 70.0, 1000.0 and 0.005
DefaultMzScanGrid == MzScanGrid(14000, 200000, 1)

\* the field of FindFeaturesOptions that find_features reads before it
\* collects the scans
FindFeaturesOptions(mz_scan_grid) == [mz_scan_grid |-> mz_scan_grid]

RECURSIVE grid_points(_, _, _, _)
\* find_features.rs 421-431: while m <= hi { xs.push(m); m += step_da }
grid_points(m, hi, step_da, xs) ==
    IF FLe(m, hi) THEN grid_points(FAdd(m, step_da), hi, step_da, Append(xs, m)) ELSE xs

\* find_features.rs 432-442: the last point becomes hi, or hi is pushed
close_grid(xs, hi) ==
    IF xs = <<>> THEN <<hi>>
    ELSE IF xs[Len(xs)] # hi THEN Append(xs, hi)
    ELSE xs

\* find_features.rs 414-420, with lo <= hi
grid_between(lo, hi, step_da) ==
    IF ~is_finite(lo) \/ ~is_finite(hi) \/ FLe(hi, lo) THEN <<>>
    ELSE IF FLe(step_da, 0) \/ ~is_finite(step_da) THEN <<lo, hi>>
    ELSE close_grid(grid_points(lo, hi, step_da, <<>>), hi)

\* build_mz_grid(start, end, step_da)
build_mz_grid(start, end_, step_da) ==
    IF FLe(start, end_) THEN grid_between(start, end_, step_da)
    ELSE grid_between(end_, start, step_da)

\* find_features.rs 117-253, which a call reaches with at least one scan:
\* no call of the model does
features_of_scans(mz_grid, collected, cores) == CHOOSE features \in {} : TRUE

\* find_features.rs 106-116
features_on_grid(mz_grid, collected, cores) ==
    IF mz_grid = <<>> THEN Panic("[panic] empty grid")
    ELSE IF Len(mz_grid) > 2000000 THEN Panic("[panic] grid too large")
    ELSE IF collected.scans = <<>> THEN Panic("[panic] no scans in time window")
    ELSE Ok(features_of_scans(mz_grid, collected, cores))

\* find_features.rs 81-92
features_with_grid(mzml, time_window, g, cores) ==
    IF ~is_finite(g.step_size) \/ FLe(g.step_size, 0)
    THEN Panic("[panic] step_size must be > 0 in Da")
    ELSE features_on_grid(build_mz_grid(g.mz_min, g.mz_max, g.step_size),
                          collect_ms1_scans(mzml, time_window), cores)

\* find_features(mzml, time_window, options, cores)
find_features(mzml, time_window, options, cores) ==
    features_with_grid(mzml, time_window,
                       unwrap_or(unwrap_or(options, FindFeaturesOptions(NoneV)).mz_scan_grid,
                                 DefaultMzScanGrid),
                       cores)

FeaturesCall(mzml, time_window, options, cores) ==
    [mzml |-> mzml, time_window |-> time_window, options |-> options, cores |-> cores]

\* the runs: no run, and the runs of at most MaxScans of the spectra of the
\* EIC model
FeatureDocs ==
    {[run |-> NoneV]} \cup {[run |-> Some([spectra |-> sp])] : sp \in SeqsUpTo(EicSpectrumKinds, MaxScans)}

\* a window after the last scan but one, a window before the first scan, and
\* a window whose start is NaN
FeatureWindows == {FromTo(4, 5), FromTo(0, 0), FromTo(NaN, 3)}

\* grids of four points and of three, a grid whose bounds are equal, and
\* steps of 0 and NaN
FeatureGrids ==
    {MzScanGrid(1, 4, 1), MzScanGrid(6, 2, 3), MzScanGrid(2, 2, 1), MzScanGrid(1, 4, 0),
     MzScanGrid(1, 4, NaN)}

\* the calls of find_features: every one on a window that holds no MS1 scan
\* of the run
FeaturesCalls ==
    {FeaturesCall(d, tw, Some(FindFeaturesOptions(Some(g))), 1) :
        d \in FeatureDocs, tw \in FeatureWindows, g \in FeatureGrids}

\* calculate_eic_from_mzml on the run and the window of the call
EicRequestOf(c) ==
    [mzml |-> c.mzml, target_mass |-> 2, from_to |-> c.time_window, options |-> EicOptions(0, 1)]

\* get_peaks_from_eic on the bytes of the run, for two items whose windows
\* [rt - from_left, rt + to_right] are the window of the call
PeaksCallOn(c) ==
    [fn |-> "eic", mzml |-> Ok(c.mzml),
     from_to |-> FromTo(0, FSub(c.time_window.to, c.time_window.from)),
     items |-> <<EicRoi(<<97>>, c.time_window.from, 2, 1), EicRoi(<<98>>, c.time_window.from, 4, 1)>>,
     options |-> NoneV, cores |-> 1]

InitFeatures ==
    /\ doc = MzML(NoneV)
    /\ buf = <<>>
    /\ origin = "none"
    /\ res = Pending
    /\ buf2 = <<>>
    /\ overflow_checks = TRUE
    /\ ff_in \in FeaturesCalls
    /\ ff_out = Pending
    /\ pd_in = <<>>
    /\ pd_out = Pending
    /\ eic_in = EicRequestOf(ff_in)
    /\ eic_out = Pending
    /\ pk_in = PeaksCallOn(ff_in)
    /\ pool = PoolAt("start", <<>>, <<>>)
    /\ pk_out = Pending
    /\ ffi = <<>>
    /\ fp_in = <<>>
    /\ fp_out = Pending

\* features = find_features(&mzml, time_window, options, cores)
FindFeatures ==
    /\ ff_in # <<>>
    /\ ff_out.tag = "pending"
    /\ ff_out' = find_features(ff_in.mzml, ff_in.time_window, ff_in.options, ff_in.cores)
    /\ UNCHANGED <<codec_vars, eic_vars, pk_in, pool, pk_out, ffi, fp_in, fp_out, ff_in, pd_in, pd_out>>

FeaturesNext == CalculateEic \/ PeaksSequential \/ FindFeatures

SpecFeatures == InitFeatures /\ [][FeaturesNext]_vars

\* the window an item of get_peaks_from_eic is computed on
ItemWindow(roi, from_to) ==
    IF FLe(FSub(roi.rt, from_to.from), FAdd(roi.rt, from_to.to))
    THEN FromTo(FSub(roi.rt, from_to.from), FAdd(roi.rt, from_to.to))
    ELSE FromTo(FAdd(roi.rt, from_to.to), FSub(roi.rt, from_to.from))

\* the document of the calls has a run, and the run has no MS1 scan in the
\* window of any of them
NoScanInWindow ==
    /\ IsSome(ff_in.mzml.run)
    /\ collect_ms1_scans(ff_in.mzml, ff_in.time_window).scans = <<>>
    /\ collect_ms1_scans(eic_in.mzml, eic_in.from_to).scans = <<>>
    /\ \A i \in 1..Len(pk_in.items) :
          collect_ms1_scans(pk_in.mzml.v, ItemWindow(pk_in.items[i], pk_in.from_to)).scans = <<>>

\* the m/z grid of the call is one find_features accepts
GridAccepted ==
    /\ is_finite(ff_in.options[1].mz_scan_grid[1].step_size)
    /\ ff_in.options[1].mz_scan_grid[1].step_size > 0
    /\ ff_in.options[1].mz_scan_grid[1].mz_min # ff_in.options[1].mz_scan_grid[1].mz_max

\* a default peak for every item, in the order of the items
DefaultPeaks(items) == [i \in 1..Len(items) |-> <<items[i].id, items[i].rt, items[i].mz, DefaultPeak>>]

\* calculate_eic_from_mzml returned empty x and y
EicIsEmpty == eic_out.tag = "ok" /\ eic_out.v = Eic(<<>>, <<>>)

\* get_peaks_from_eic returned a default peak per item
PeaksAreDefault == pk_out.tag = "ok" /\ pk_out.v = Some(DefaultPeaks(pk_in.items))

\* C14: on a run with no MS1 scan in the requested window,
\* calculate_eic_from_mzml returns empty x and y, get_peaks_from_eic returns a
\* default peak per item and find_features returns an empty list; none of
\* them reports an error or panics.
C14_EmptyWindowIsNotAnError ==
    (NoScanInWindow /\ GridAccepted) =>
        /\ eic_out.tag # "pending" => EicIsEmpty
        /\ pk_out.tag # "pending" => PeaksAreDefault
        /\ ff_out.tag # "pending" => ff_out.tag = "ok" /\ ff_out.v = <<>>

-----------------------------------------------------------------------------
(* The peak detector, function by function: scan_for_peaks and              *)
(* scan_for_peaks_across_windows on short series.                           *)

\* the number of samples of a scanned series: two window sizes (5 and 7) fit it
ScanLen == 7
\* the intensities of a scanned series
ScanLevels == {0, 2, 4}
\* the lengths of the constant series
ConstantLens(n) == 0..(n + 1)

\* the series of n samples on the two grids
ScanSeries(n) ==
    {DataXY(grid(n, last), series(n, y)) : last \in LastSteps, y \in [1..n -> ScanLevels]}

\* n samples of the one intensity c, one time unit apart
constant_series(n, c) == DataXY([i \in 1..n |-> R(i - 1)], [i \in 1..n |-> R(c)])
ConstantSeries(n) == {constant_series(k, c) : k \in ConstantLens(n), c \in Levels}

\* the window sizes a caller of scan_for_peaks_across_windows passes
ScanWindowLists == {<<5>>, <<7>>, <<4, 9>>}

PdCall(fn, data, window_sizes) == [fn |-> fn, data |-> data, window_sizes |-> window_sizes]

\* the calls on series of n samples, and on the constant series
ScanCalls(n) ==
    {PdCall("scan_for_peaks", d, SCAN_WINDOW_SIZES) :
         d \in ScanSeries(n) \cup PeakSeries \cup ConstantSeries(n)}
        \cup {PdCall("scan_for_peaks_across_windows", d, wss) :
                  d \in {s \in ScanSeries(n) : s.x = grid(n, R(1))}, wss \in ScanWindowLists}
        \cup {PdCall("find_peaks", d, <<>>) : d \in ConstantSeries(n)}

\* the caller holds the arguments of the call it is about to make
InitScan ==
    /\ doc = MzML(NoneV)
    /\ buf = <<>>
    /\ origin = "none"
    /\ res = Pending
    /\ buf2 = <<>>
    /\ overflow_checks = TRUE
    /\ eic_in = <<>>
    /\ eic_out = Pending
    /\ pk_in = <<>>
    /\ pool = <<>>
    /\ pk_out = Pending
    /\ ffi = <<>>
    /\ fp_in = <<>>
    /\ fp_out = Pending
    /\ ff_in = <<>>
    /\ ff_out = Pending
    /\ pd_in \in ScanCalls(ScanLen)
    /\ pd_out = Pending

\* scan_for_peaks(&data, None)
ScanForPeaks ==
    /\ pd_in.fn = "scan_for_peaks"
    /\ pd_out.tag = "pending"
    /\ pd_out' = Ok(scan_for_peaks(pd_in.data, DefaultScanPeaksOptions))
    /\ UNCHANGED <<codec_vars, eic_vars, pk_in, pool, pk_out, ffi, fp_in, fp_out, ff_in, ff_out, pd_in>>

\* scan_for_peaks_across_windows(&data, None, Some(window_sizes))
ScanAcrossWindows ==
    /\ pd_in.fn = "scan_for_peaks_across_windows"
    /\ pd_out.tag = "pending"
    /\ pd_out' = Ok(scan_for_peaks_across_windows(pd_in.data, DefaultScanPeaksOptions,
                                                  pd_in.window_sizes))
    /\ UNCHANGED <<codec_vars, eic_vars, pk_in, pool, pk_out, ffi, fp_in, fp_out, ff_in, ff_out, pd_in>>

\* find_peaks(&data, None)
FindPeaksOfSeries ==
    /\ pd_in.fn = "find_peaks"
    /\ pd_out.tag = "pending"
    /\ pd_out' = find_peaks(pd_in.data, NoneV)
    /\ UNCHANGED <<codec_vars, eic_vars, pk_in, pool, pk_out, ffi, fp_in, fp_out, ff_in, ff_out, pd_in>>

ScanNext == ScanForPeaks \/ ScanAcrossWindows \/ FindPeaksOfSeries

SpecScan == InitScan /\ [][ScanNext]_vars

\* the call of a scan function has returned its positions
ScanReturned == pd_in.fn # "find_peaks" /\ pd_out.tag = "ok"

\* the window sizes the scan of the call uses (scan_for_peaks.rs 41-46)
sizes_of(c) == WindowSizes(c.window_sizes, Len(c.data.x), <<>>)

\* the candidates (x, y) of window wi, as (x, y, wi)
tagged(cands, wi) == [i \in 1..Len(cands) |-> <<cands[i][1], cands[i][2], wi>>]

RECURSIVE tagged_all(_, _, _, _, _)
\* the candidates of scan_all, each with the index of the window that found it
tagged_all(data, sizes, eps, wi, all) ==
    IF wi > Len(sizes) THEN all
    ELSE tagged_all(data, sizes, eps, wi + 1, all \o tagged(scan_one_ws(data, sizes[wi], eps), wi))

\* the group g = (center, peak_y, count, windows) joined by the candidate c
group_joined(g, c) == joined(<<g[1], g[2], g[3]>>, c[1], c[2]) \o <<g[4] \cup {c[3]}>>

RECURSIVE supporters(_, _, _, _)
\* the clusters of cluster_all with the windows that found a member of each:
\* the candidates are joined in the order of the scan (scan_for_peaks.rs 77-100)
supporters(all, rt_tol, centers, k) ==
    IF all = <<>> THEN centers
    ELSE IF k > Len(centers)
    THEN supporters(Tail(all), rt_tol,
                    Append(centers, <<Head(all)[1], Head(all)[2], 1, {Head(all)[3]}>>), 1)
    ELSE IF RLe(RAbs(RSub(Head(all)[1], centers[k][1])), rt_tol)
    THEN supporters(Tail(all), rt_tol, [centers EXCEPT ![k] = group_joined(centers[k], Head(all))], 1)
    ELSE supporters(all, rt_tol, centers, k + 1)

\* the groups of candidates of the call
groups_of(c) ==
    supporters(tagged_all(c.data, sizes_of(c), EPS, 1, <<>>), time_tolerance(c.data.x), <<>>, 1)

\* every position is the centre of a group with candidates of at least need windows
supported(positions, groups, need) ==
    \A i \in 1..Len(positions) :
        \E k \in 1..Len(groups) : groups[k][1] = positions[i] /\ Cardinality(groups[k][4]) >= need

\* C22: with two or more usable window sizes, every returned position is the
\* centre of a group whose candidates come from at least ceil(0.6 m) distinct
\* windows
C22_VotedByDistinctWindows ==
    (ScanReturned /\ Len(sizes_of(pd_in)) >= 2)
        => supported(pd_out.v, groups_of(pd_in), votes_needed(Len(sizes_of(pd_in))))

\* every position is the centre of a group of at least need candidates
counted(positions, groups, need) ==
    \A i \in 1..Len(positions) :
        \E k \in 1..Len(groups) : groups[k][1] = positions[i] /\ groups[k][3] >= need

\* what the scan ensures instead: enough candidates, of whichever windows
C22_VotedByCandidates ==
    (ScanReturned /\ Len(sizes_of(pd_in)) >= 2)
        => counted(pd_out.v, groups_of(pd_in), votes_needed(Len(sizes_of(pd_in))))

\* the groups of the call that have the votes
voted_groups(c) ==
    SelectSeq(groups_of(c), LAMBDA g : g[3] >= votes_needed(Len(sizes_of(c))))

\* the voted group g is returned, or a voted group at least as tall lies
\* closer to it than min_sep
kept_or_outdone(g, voted, positions, min_sep) ==
    \/ \E i \in 1..Len(positions) : positions[i] = g[1]
    \/ \E k \in 1..Len(voted) :
           /\ voted[k] # g
           /\ RLt(RAbs(RSub(voted[k][1], g[1])), min_sep)
           /\ RGe(voted[k][2], g[2])

\* the positions ascend at least min_sep apart, each is the centre of a voted
\* group, and every voted group is returned or outdone
thinned_to(positions, voted, min_sep) ==
    /\ \A i \in 1..(Len(positions) - 1) :
           /\ RLt(positions[i], positions[i + 1])
           /\ RGe(RSub(positions[i + 1], positions[i]), min_sep)
    /\ \A i \in 1..Len(positions) : \E k \in 1..Len(voted) : voted[k][1] = positions[i]
    /\ \A k \in 1..Len(voted) : kept_or_outdone(voted[k], voted, positions, min_sep)

\* C23: the returned positions ascend, consecutive ones are at least
\* min_separation(x, 11) apart, each is the centre of a voted group, and a
\* voted group that is not returned has a voted group at least as tall
\* closer to it than that separation
C23_AscendingAndSeparated ==
    ScanReturned
        => thinned_to(pd_out.v, voted_groups(pd_in), min_separation(pd_in.data.x, 11))

\* a voted group closer than the separation to a taller one is not returned
C23_Witness == ScanReturned /\ Len(pd_out.v) >= 1 /\ Len(voted_groups(pd_in)) > Len(pd_out.v)
\* a call that returns two positions
C23_TwoPositions == ScanReturned /\ Len(pd_out.v) >= 2

-----------------------------------------------------------------------------
(* The passes of find_peaks over a list of peaks, function by function:     *)
(* dedupe_near_identical, suppress_contained_peaks and extend_tails.        *)

\* the call of a pass: the function, the series and the peaks it is given
PassCall(fn, data, peaks, noise) == [fn |-> fn, data |-> data, peaks |-> peaks, noise |-> noise]

\* a peak of the given span, apex and height
PeakAt(from, to, rt, intensity) == Peak(from, to, rt, R(0), intensity, R(0), 1, R(0))

\* the most peaks of a list
MaxPeaks == 3

\* left bounds that differ by the tolerance 1e-6 of dedupe_near_identical, or by twice as much
NearFroms == {<<0 - 1, 1000000>>, R(0), <<1, 1000000>>}
NearPeaks ==
    {PeakAt(f, R(t), R(rt), R(h)) : f \in NearFroms, t \in {4, 5}, rt \in {2, 3}, h \in {1, 2}}

\* the lists of at most n peaks of ps
Lists(ps, n) == UNION {[1..k -> ps] : k \in 0..n}
\* the peaks of the list are in the order of rt
rt_sorted(peaks) == \A i \in 1..(Len(peaks) - 1) : RLe(peaks[i].rt, peaks[i + 1].rt)

NoSeries == DataXY(<<>>, <<>>)
\* the calls on lists of at most n peaks
DedupeCalls(n) ==
    {PassCall("dedupe_near_identical", NoSeries, l, R(0)) : l \in {k \in Lists(NearPeaks, n) : rt_sorted(k)}}

\* the spans of the peaks on thirteen samples at 0, 1, .., 12: three wide
\* ones that cover each other by 90% or by 80%, a short one, and two no wider
\* than a sampling step
Spans == {<<0, 10>>, <<1, 11>>, <<2, 12>>, <<0, 3>>, <<4, 5>>, <<11, 12>>}
SpanPeaks == {PeakAt(R(sp[1]), R(sp[2]), <<sp[1] + sp[2], 2>>, R(h)) : sp \in Spans, h \in {1, 2, 3}}
FlatSeries(n) == DataXY(grid(n, R(1)), [i \in 1..n |-> R(0)])

SuppressCalls(n) ==
    {PassCall("suppress_contained_peaks", FlatSeries(13), l, R(0)) : l \in Lists(SpanPeaks, n)}

\* the series whose tails are extended, of 11 samples (the window of
\* extend_tails is 11 then): flat, a rising and a falling parabola, a valley, a step, two bumps
TailShapes ==
    {<<0, 0, 0, 0, 0, 0, 0, 0, 0, 0, 0>>, <<0, 1, 4, 9, 16, 25, 36, 49, 64, 81, 100>>,
     <<100, 81, 64, 49, 36, 25, 16, 9, 4, 1, 0>>, <<25, 16, 9, 4, 1, 0, 1, 4, 9, 16, 25>>,
     <<0, 0, 0, 0, 0, 4, 4, 4, 4, 4, 4>>, <<0, 4, 0, 0, 0, 0, 4, 0, 0, 0, 0>>}
TailSeries == {DataXY(grid(Len(y), R(1)), series(Len(y), y)) : y \in TailShapes}
\* the spans of the peaks given: apart, touching, nested, and at both ends
TailSpans == {<<0, 1>>, <<1, 3>>, <<3, 4>>, <<4, 6>>, <<6, 8>>, <<9, 10>>, <<2, 7>>}
TailPeaks == {PeakAt(R(sp[1]), R(sp[2]), <<sp[1] + sp[2], 2>>, R(4)) : sp \in TailSpans}

ExtendCalls(n) ==
    {PassCall("extend_tails", d, l, R(noise)) :
         d \in TailSeries, l \in Lists(TailPeaks, n), noise \in {0, 1}}

PassCalls(n) == DedupeCalls(n) \cup SuppressCalls(n) \cup ExtendCalls(n)

\* the caller holds the arguments of the call it is about to make
InitPasses ==
    /\ doc = MzML(NoneV)
    /\ buf = <<>>
    /\ origin = "none"
    /\ res = Pending
    /\ buf2 = <<>>
    /\ overflow_checks = TRUE
    /\ eic_in = <<>>
    /\ eic_out = Pending
    /\ pk_in = <<>>
    /\ pool = <<>>
    /\ pk_out = Pending
    /\ ffi = <<>>
    /\ fp_in = <<>>
    /\ fp_out = Pending
    /\ ff_in = <<>>
    /\ ff_out = Pending
    /\ pd_in \in PassCalls(MaxPeaks)
    /\ pd_out = Pending

\* dedupe_near_identical(peaks)
DedupeNearIdentical ==
    /\ pd_in.fn = "dedupe_near_identical"
    /\ pd_out.tag = "pending"
    /\ pd_out' = Ok(dedupe_near_identical(pd_in.peaks))
    /\ UNCHANGED <<codec_vars, eic_vars, pk_in, pool, pk_out, ffi, fp_in, fp_out, ff_in, ff_out, pd_in>>

\* suppress_contained_peaks(data, peaks)
SuppressContainedPeaks ==
    /\ pd_in.fn = "suppress_contained_peaks"
    /\ pd_out.tag = "pending"
    /\ pd_out' = Ok(suppress_contained_peaks(pd_in.data, pd_in.peaks))
    /\ UNCHANGED <<codec_vars, eic_vars, pk_in, pool, pk_out, ffi, fp_in, fp_out, ff_in, ff_out, pd_in>>

\* extend_tails(data, peaks, noise)
ExtendTails ==
    /\ pd_in.fn = "extend_tails"
    /\ pd_out.tag = "pending"
    /\ pd_out' = Ok(extend_tails(pd_in.data, pd_in.peaks, pd_in.noise))
    /\ UNCHANGED <<codec_vars, eic_vars, pk_in, pool, pk_out, ffi, fp_in, fp_out, ff_in, ff_out, pd_in>>

PassesNext == DedupeNearIdentical \/ SuppressContainedPeaks \/ ExtendTails

SpecPasses == InitPasses /\ [][PassesNext]_vars

PassReturned(fn) == pd_in.fn = fn /\ pd_out.tag = "ok"

\* no two peaks of the list are near-identical
all_distinct(peaks) ==
    \A i \in 1..Len(peaks) : \A j \in (i + 1)..Len(peaks) : ~same_peak(peaks[i], peaks[j])

\* every peak of the list given has a peak at least as tall in the list
\* returned, in a group with it: both near-identical to one peak given
tallest_kept(given, returned) ==
    \A i \in 1..Len(given) :
        \E k \in 1..Len(returned) :
            /\ RGe(returned[k].intensity, given[i].intensity)
            /\ \E f \in 1..Len(given) : same_peak(given[f], given[i]) /\ same_peak(given[f], returned[k])

deduped(given, returned) ==
    /\ all_distinct(returned)
    /\ tallest_kept(given, returned)
    /\ dedupe_near_identical(returned) = returned

\* C24: after dedupe_near_identical on a list sorted by rt no two peaks of the
\* output are near-identical, the tallest peak of every collapsed group is
\* kept, and a second application changes nothing
C24_NoNearIdenticalLeft ==
    PassReturned("dedupe_near_identical") => deduped(pd_in.peaks, pd_out.v)

\* the parts of C24, one by one
C24_Distinct == PassReturned("dedupe_near_identical") => all_distinct(pd_out.v)
C24_TallestKept == PassReturned("dedupe_near_identical") => tallest_kept(pd_in.peaks, pd_out.v)
C24_Idempotent ==
    PassReturned("dedupe_near_identical") => dedupe_near_identical(pd_out.v) = pd_out.v

\* the part of the span of b that the span of a covers
overlap_of(a, b) == RMax(RSub(RMin(a.to, b.to), RMax(a.from, b.from)), R(0))

\* a is more intense than b and covers at least 90% of the width of b
covers(a, b) ==
    /\ RGt(a.intensity, b.intensity)
    /\ RGe(overlap_of(a, b), RMul(<<9, 10>>, RAbs(RSub(b.to, b.from))))

\* the peaks that no more intense peak of the list covers, in the order given
uncovered(peaks) ==
    kept_from(peaks, [i \in DOMAIN peaks |-> \A j \in DOMAIN peaks : ~covers(peaks[j], peaks[i])],
              1, <<>>)

\* C25: suppress_contained_peaks returns, sorted by rt, exactly the peaks that
\* no more intense peak covers by at least 90% of their width
C25_DropsExactlyTheCovered ==
    PassReturned("suppress_contained_peaks") => pd_out.v = sort_peaks(uncovered(pd_in.peaks), <<>>)

\* the list is a part of the other, peak by peak
sub_list(part, whole) ==
    \A p \in {part[i] : i \in DOMAIN part} :
        Cardinality({i \in DOMAIN part : part[i] = p}) <= Cardinality({i \in DOMAIN whole : whole[i] = p})

\* the parts of C25, one by one
C25_SortedByRt == PassReturned("suppress_contained_peaks") => rt_sorted(pd_out.v)
C25_TallestKept ==
    (PassReturned("suppress_contained_peaks") /\ pd_in.peaks # <<>>)
        => \E k \in DOMAIN pd_out.v :
               \A i \in DOMAIN pd_in.peaks : RGe(pd_out.v[k].intensity, pd_in.peaks[i].intensity)
\* no two peaks of the list are equally intense
distinct_heights(peaks) ==
    \A i \in DOMAIN peaks : \A j \in DOMAIN peaks : i # j => peaks[i].intensity # peaks[j].intensity
\* every peak that no more intense peak covers is returned
C25_UncoveredKept ==
    (PassReturned("suppress_contained_peaks") /\ distinct_heights(pd_in.peaks))
        => sub_list(uncovered(pd_in.peaks), pd_out.v)
\* every peak returned is one that no more intense peak covers
C25_KeptUncovered ==
    (PassReturned("suppress_contained_peaks") /\ distinct_heights(pd_in.peaks))
        => sub_list(pd_out.v, uncovered(pd_in.peaks))

\* the peak q is the peak p with its bounds moved outwards onto samples of x
\* (or left where they were)
widened(p, q, x) ==
    /\ q.rt = p.rt /\ q.intensity = p.intensity
    /\ RLe(q.from, p.from) /\ RGe(q.to, p.to)
    /\ q.from # p.from => \E k \in DOMAIN x : x[k] = q.from
    /\ q.to # p.to => \E k \in DOMAIN x : x[k] = q.to

\* given and returned are the peaks before and after extend_tails, both in
\* the order of rt: every pair of neighbours that did not overlap still does
\* not, and a bound that moved did not pass the bound of the neighbour (the
\* extended one on the left, the given one on the right)
tails_apart(given, returned, x) ==
    /\ Len(returned) = Len(given)
    /\ \A i \in DOMAIN given : widened(given[i], returned[i], x)
    /\ \A i \in 1..(Len(given) - 1) :
           /\ RLe(given[i].to, given[i + 1].from) => RLe(returned[i].to, returned[i + 1].from)
           /\ returned[i].to # given[i].to => RLe(returned[i].to, given[i + 1].from)
           /\ returned[i + 1].from # given[i + 1].from => RGe(returned[i + 1].from, returned[i].to)

\* C26: after extend_tails the peaks, in the order of rt, still do not overlap
\* where they did not before; a bound that was extended lies on a sample of
\* the series, not past the bound of the neighbour, and the call returns
C26_TailsStayApart ==
    (pd_in.fn = "extend_tails" /\ pd_out.tag # "pending")
        => /\ pd_out.tag = "ok"
           /\ tails_apart(sort_peaks(pd_in.peaks, <<>>), pd_out.v, pd_in.data.x)

\* a peak was extended to the right up to the left bound of its neighbour
C26_Witness ==
    /\ pd_in.fn = "extend_tails" /\ pd_out.tag = "ok" /\ Len(pd_out.v) >= 2
    /\ RLt(sort_peaks(pd_in.peaks, <<>>)[1].to, pd_out.v[1].to)
    /\ pd_out.v[1].to = pd_out.v[2].from
\* a peak was extended to the left, up to the extended right bound of the
\* peak before it
C26_ExtendedLeft ==
    /\ pd_in.fn = "extend_tails" /\ pd_out.tag = "ok" /\ Len(pd_out.v) >= 2
    /\ RLt(pd_out.v[2].from, sort_peaks(pd_in.peaks, <<>>)[2].from)
    /\ pd_out.v[2].from = pd_out.v[1].to
\* a walk stopped before the guard: the last peak ends before the last sample
C26_StoppedEarly ==
    /\ pd_in.fn = "extend_tails" /\ pd_out.tag = "ok" /\ Len(pd_out.v) = 1
    /\ RLt(pd_out.v[1].to, Last(pd_in.data.x))

-----------------------------------------------------------------------------
(* sgg.rs: the calls of sgg, with the sample each loop iteration assigns.    *)

\* one assignment ans[idx] = (d / hs[idx]) as f32, where d is the dot product
\* of weights[row] with the window_size samples of y64 from off on
SggWrite(idx, row, off) == [idx |-> idx, row |-> row, off |-> off]

RECURSIVE sgg_edges(_, _, _, _)
\* sgg.rs 61-78: for i in 0..half, ans[idx_l] from weights[half - i - 1] on the
\* first window and ans[idx_r] from weights[half + i + 1] on the last one
sgg_edges(n, window_size, i, log) ==
    IF i >= window_size \div 2 THEN log
    ELSE sgg_edges(n, window_size, i + 1,
             log \o <<SggWrite(window_size \div 2 - i - 1, window_size \div 2 - i - 1, 0),
                      SggWrite(n - window_size \div 2 + i, window_size \div 2 + i + 1,
                               n - window_size)>>)

\* the centre loop that stops one window short of the end
sgg_centre_Short(n, window_size, i, log) == log

RECURSIVE sgg_centre(_, _, _, _)
\* sgg.rs 80-88: for i in window_size..=n, ans[i - half - 1] from weights[half]
\* on the samples i - window_size .. i - 1
sgg_centre(n, window_size, i, log) ==
    IF i > n THEN log
    ELSE sgg_centre(n, window_size, i + 1,
             Append(log, SggWrite(i - window_size \div 2 - 1, window_size \div 2,
                                  i - window_size)))

\* sgg.rs 61-88: the assignments in the order the two loops make them
sgg_assignments(n, window_size) ==
    sgg_centre(n, window_size, window_size, sgg_edges(n, window_size, 0, <<>>))

RECURSIVE sgg_assign(_, _, _, _, _, _)
\* sgg.rs 59, 76-77, 87: ans, n zeros at first, after the assignments of log
sgg_assign(ys, weights, hs, log, k, ans) ==
    IF k > Len(log) THEN ans
    ELSE sgg_assign(ys, weights, hs, log, k + 1,
             [ans EXCEPT ![log[k].idx + 1] =
                 RDiv(sg_dot(At(weights, log[k].row), ys, log[k].off, 0, R(0)),
                      At(hs, log[k].idx))])

\* sgg.rs 18-91 with the panics of lines 23-41: the vector returned and the
\* assignments that made it
sgg_call(ys, xs, window_size, derivative) ==
    IF sgg_panics(ys, xs, window_size) THEN Panic("sgg")
    ELSE Ok([ans |-> sgg_assign(ys, weights_of(window_size, derivative),
                                get_hs(xs, window_size \div 2, derivative),
                                sgg_assignments(Len(ys), window_size), 1,
                                [c \in 1..Len(ys) |-> R(0)]),
             assigned |-> sgg_assignments(Len(ys), window_size)])

\* the longest series smoothed
SggLen == 11
\* the samples of the series, cut to its length
SggShape == <<3, 1, 4, 1, 5, 9, 2, 6, 5, 3, 5, 8>>
SggSeries(n) == {DataXY(grid(k, R(1)), series(k, SggShape)) : k \in 0..n}
\* the windows asked for: even, below 5, odd and at least 5, above the length
SggWindows(n) == 0..(n + 2)
SggCall(data, window_size, derivative) ==
    [fn |-> "sgg", data |-> data, window_size |-> window_size, derivative |-> derivative]
SggCalls(n) ==
    {SggCall(d, w, s) : d \in SggSeries(n), w \in SggWindows(n), s \in 0..2}

\* the caller holds the arguments of the call it is about to make
InitSgg ==
    /\ doc = MzML(NoneV)
    /\ buf = <<>>
    /\ origin = "none"
    /\ res = Pending
    /\ buf2 = <<>>
    /\ overflow_checks = TRUE
    /\ eic_in = <<>>
    /\ eic_out = Pending
    /\ pk_in = <<>>
    /\ pool = <<>>
    /\ pk_out = Pending
    /\ ffi = <<>>
    /\ fp_in = <<>>
    /\ fp_out = Pending
    /\ ff_in = <<>>
    /\ ff_out = Pending
    /\ pd_in \in SggCalls(SggLen)
    /\ pd_out = Pending

\* sgg(ys, xs, SggOptions { window_size, derivative, polynomial: 3 })
Sgg ==
    /\ pd_in.fn = "sgg"
    /\ pd_out.tag = "pending"
    /\ pd_out' = sgg_call(pd_in.data.y, pd_in.data.x, pd_in.window_size, pd_in.derivative)
    /\ UNCHANGED <<codec_vars, eic_vars, pk_in, pool, pk_out, ffi, fp_in, fp_out, ff_in, ff_out, pd_in>>

SggNext == Sgg

SpecSgg == InitSgg /\ [][SggNext]_vars

\* the rows of the weights: the row of an edge sample is offset from the
\* centre row by the distance of the sample to the centre of the edge window
row_of(idx, n, window_size) ==
    IF idx < window_size \div 2 THEN idx
    ELSE IF idx >= n - window_size \div 2 THEN window_size - (n - idx)
    ELSE window_size \div 2

assigned_once(log, n, window_size) ==
    \A idx \in 0..(n - 1) :
        /\ Cardinality({k \in 1..Len(log) : log[k].idx = idx}) = 1
        /\ \A k \in 1..Len(log) :
               log[k].idx = idx => log[k].row = row_of(idx, n, window_size)

sgg_accepts(n, window_size) == window_size % 2 = 1 /\ window_size >= 5 /\ window_size <= n

\* C27: for an odd window of at least 5 on a series at least as long, sgg
\* returns as many samples as the series has and has assigned each of them
\* exactly once, the first and the last half-window of them from the edge rows
\* of the weights and the others from the centre row; for any other window it
\* panics
C27_EverySampleAssignedOnce ==
    (pd_in.fn = "sgg" /\ pd_out.tag # "pending") =>
        IF sgg_accepts(Len(pd_in.data.y), pd_in.window_size)
        THEN /\ pd_out.tag = "ok"
             /\ Len(pd_out.v.ans) = Len(pd_in.data.y)
             /\ Len(pd_out.v.assigned) = Len(pd_in.data.y)
             /\ assigned_once(pd_out.v.assigned, Len(pd_in.data.y), pd_in.window_size)
        ELSE pd_out.tag = "panic"

\* a series longer than the window has been smoothed: edge and centre samples
C27_Witness ==
    /\ pd_in.fn = "sgg"
    /\ pd_out.tag = "ok"
    /\ pd_in.window_size = 7
    /\ Len(pd_out.v.ans) = 10

\* a call with an even window has panicked
C27_EvenWindowPanicked ==
    /\ pd_in.fn = "sgg"
    /\ pd_out.tag = "panic"
    /\ pd_in.window_size = 6
    /\ Len(pd_in.data.y) = 10

\* the vector the loops assign is the vector of the smoothed samples
C27_SameAsSmoothed ==
    (pd_in.fn = "sgg" /\ pd_out.tag = "ok") =>
        pd_out.v.ans = sgg(pd_in.data.y, pd_in.data.x, pd_in.window_size, pd_in.derivative)

-----------------------------------------------------------------------------
(* get_peak.rs: get_peak_across_windows on a series of any length, with the *)
(* times of the series and of the region of interest as fractions.          *)

\* get_peak.rs 24-36
min_spacing_of(xs, dx) ==
    IF Len(xs) < 2 THEN <<1, 100>> ELSE IF r_is_finite(dx) THEN dx ELSE <<1, 100>>
min_spacing(xs) == min_spacing_of(xs, dx_min_from(xs, 0, RInf))

\* get_peak.rs 76-80
roi_half_width(roi) ==
    IF r_is_finite(roi.window) /\ RGt(roi.window, R(0)) THEN roi.window ELSE R(0)

\* get_peak.rs 101-127: the options of the call of find_peaks for one window
\* size; the noise gate is 3 * find_noise_level(y).max(0.0)
window_options(base, gate_noise, ws_eff) ==
    FindPeaksOptions(base.get_boundaries_options,
                     Some(FilterPeaksOptions(NoneV, Some(3), NoneV, Some(gate_noise), Some(FALSE),
                                             Some(TRUE), Some(R(0)))),
                     Some(ScanPeaksOptions(unwrap_or(base.scan_peaks_options,
                                                     DefaultScanPeaksOptions).epsilon,
                                           ws_eff)))

\* get_peak.rs 129-132: a panic of find_peaks is caught and leaves no peak
caught(r) == IF r.tag = "ok" THEN r.v ELSE <<>>

\* get_peak.rs 134-141
in_roi(peaks, w, lo, hi) ==
    IF RGt(w, R(0))
    THEN SelectSeq(peaks, LAMBDA p : r_is_finite(p.rt) /\ RGe(p.rt, lo) /\ RLe(p.rt, hi))
    ELSE peaks

\* a peak of peaks_all with its entry of win_id
WindowPeak(p, wi) == [p |-> p, wi |-> wi]
tag_window(peaks, wi) == [k \in 1..Len(peaks) |-> WindowPeak(peaks[k], wi)]

RECURSIVE peaks_of_windows(_, _, _, _, _, _, _, _)
\* get_peak.rs 99-147: peaks_all and win_id
peaks_of_windows(data, base, gate_noise, w, lo, hi, sizes, wi) ==
    IF wi >= Len(sizes) THEN <<>>
    ELSE tag_window(in_roi(caught(find_peaks(data, Some(window_options(base, gate_noise,
                                                                        At(sizes, wi))))),
                           w, lo, hi), wi)
             \o peaks_of_windows(data, base, gate_noise, w, lo, hi, sizes, wi + 1)

\* get_peak.rs 151-160: the window of the final smoothing
final_window(n) == Min(11, Max(n, 1))

RECURSIVE order_insert(_, _, _)
\* the place of index idx in order: after the indices whose rt is not greater
order_insert(pa, order, idx) ==
    IF order = <<>> THEN <<idx>>
    ELSE IF RLt(At(pa, idx).p.rt, At(pa, Head(order)).p.rt) THEN <<idx>> \o order
    ELSE <<Head(order)>> \o order_insert(pa, Tail(order), idx)

RECURSIVE order_by_rt(_, _, _)
\* get_peak.rs 168-169: the indices of peaks_all, stably sorted by rt
order_by_rt(pa, idx, order) ==
    IF idx >= Len(pa) THEN order ELSE order_by_rt(pa, idx + 1, order_insert(pa, order, idx))

RECURSIVE valley_of(_, _, _, _)
\* get_peak.rs 185-191: the lowest smoothed sample from l to r
valley_of(ys_sm, j, r, valley) ==
    IF j > r THEN valley
    ELSE valley_of(ys_sm, j + 1, r, IF RLt(At(ys_sm, j), valley) THEN At(ys_sm, j) ELSE valley)

\* centers, groups, group_maxy and group_ws
Groups(centers, groups, maxy, ws) == [centers |-> centers, groups |-> groups, maxy |-> maxy, ws |-> ws]

\* get_peak.rs 178-193: the peak is close to the last group and no valley
\* separates them
joins_last(st, p, x, ys_sm, rt_gate, valley_floor, i0, i1) ==
    /\ RLe(RAbs(RSub(p.rt, Last(st.centers))), rt_gate)
    /\ RGe(valley_of(ys_sm, Min(i0, i1), Max(i0, i1), RInf),
           RMax(RMul(<<7, 10>>, RMin(p.intensity, Last(st.maxy))), valley_floor))

\* get_peak.rs 194-205
join_last(st, idx, wp, g) ==
    Groups([st.centers EXCEPT ![g] = RDiv(RAdd(RMul(st.centers[g], R(Len(st.groups[g]))), wp.p.rt),
                                         R(Len(st.groups[g]) + 1))],
           [st.groups EXCEPT ![g] = Append(st.groups[g], idx)],
           [st.maxy EXCEPT ![g] = IF RGt(wp.p.intensity, st.maxy[g]) THEN wp.p.intensity ELSE st.maxy[g]],
           [st.ws EXCEPT ![g] = IF \E k \in 1..Len(st.ws[g]) : st.ws[g][k] = wp.wi THEN st.ws[g]
                                ELSE Append(st.ws[g], wp.wi)])

\* get_peak.rs 208-213
new_group(st, idx, wp) ==
    Groups(Append(st.centers, wp.p.rt), Append(st.groups, <<idx>>), Append(st.maxy, wp.p.intensity),
           Append(st.ws, <<wp.wi>>))

\* get_peak.rs 176-214: one peak of order
place_peak(st, pa, idx, x, ys_sm, rt_gate, valley_floor) ==
    IF st.centers # <<>>
       /\ joins_last(st, At(pa, idx).p, x, ys_sm, rt_gate, valley_floor,
                     closest_index(x, At(pa, idx).p.rt), closest_index(x, Last(st.centers)))
    THEN join_last(st, idx, At(pa, idx), Len(st.centers))
    ELSE new_group(st, idx, At(pa, idx))

RECURSIVE group_peaks(_, _, _, _, _, _, _)
\* get_peak.rs 171-214
group_peaks(st, pa, order, x, ys_sm, rt_gate, valley_floor) ==
    IF order = <<>> THEN st
    ELSE group_peaks(place_peak(st, pa, Head(order), x, ys_sm, rt_gate, valley_floor), pa,
                     Tail(order), x, ys_sm, rt_gate, valley_floor)

\* get_peak.rs 216-220
r_search_of(w, dx) ==
    IF RGt(w, R(0)) THEN RMax(RMul(<<1, 4>>, w), RMul(R(3), dx)) ELSE RMul(R(3), dx)

RECURSIVE highest_from(_, _, _, _, _)
\* get_peak.rs 223-232: im, the first highest smoothed sample from i_lo to i_hi
highest_from(ys_sm, i, i_hi, im, ym) ==
    IF i > i_hi \/ i >= Len(ys_sm) THEN im
    ELSE IF RGt(At(ys_sm, i), ym) THEN highest_from(ys_sm, i + 1, i_hi, i, At(ys_sm, i))
    ELSE highest_from(ys_sm, i + 1, i_hi, im, ym)

\* get_peak.rs 233
ort_rt_of(x, ys_sm, rt, r_search) ==
    At(x, highest_from(ys_sm, closest_index(x, RSub(rt, r_search)),
                       closest_index(x, RAdd(rt, r_search)),
                       closest_index(x, RSub(rt, r_search)), RNegInf))

\* get_peak.rs 235-246: the groups with a peak within rt_gate of ort_rt
groups_near(st, pa, ort_rt, rt_gate) ==
    {gi \in 0..(Len(st.groups) - 1) :
        \E k \in 1..Len(At(st.groups, gi)) :
            RLe(RAbs(RSub(At(pa, At(st.groups, gi)[k]).p.rt, ort_rt)), rt_gate)}

RECURSIVE nearest_center(_, _, _, _, _)
\* get_peak.rs 247-258
nearest_center(centers, ort_rt, gi, bd, bi) ==
    IF gi >= Len(centers) THEN bi
    ELSE IF RLt(RAbs(RSub(At(centers, gi), ort_rt)), bd)
    THEN nearest_center(centers, ort_rt, gi + 1, RAbs(RSub(At(centers, gi), ort_rt)), Some(gi))
    ELSE nearest_center(centers, ort_rt, gi + 1, bd, bi)

SetMin(S) == CHOOSE v \in S : \A u \in S : v <= u

\* get_peak.rs 234-258
ort_cluster_of(st, near, ort_rt) ==
    IF near # {} THEN Some(SetMin(near)) ELSE nearest_center(st.centers, ort_rt, 0, RInf, NoneV)

\* get_peak.rs 260-265
need_support_of(m) == IF m <= 3 THEN 1 ELSE (m + 3) \div 4

\* the indices 0 .. n - 1 that satisfy Keep, in ascending order
indices_where(n, Keep(_)) == SelectSeq([k \in 1..n |-> k - 1], Keep)

\* get_peak.rs 267-278
base_cands_of(st, w, lo, hi, inside) ==
    IF inside # <<>> THEN inside ELSE [k \in 1..Len(st.groups) |-> k - 1]

RECURSIVE roi_max_h_of(_, _, _)
\* get_peak.rs 280-285
roi_max_h_of(maxy, cands, h) ==
    IF cands = <<>> THEN h
    ELSE roi_max_h_of(maxy, Tail(cands), IF RGt(At(maxy, Head(cands)), h) THEN At(maxy, Head(cands)) ELSE h)

\* get_peak.rs 286-292
min_h_of(min_h_abs, min_h_rel) == IF RGt(min_h_abs, min_h_rel) THEN min_h_abs ELSE min_h_rel

\* get_peak.rs 294-304
pool_of(base_cands, passing) == IF passing # <<>> THEN passing ELSE base_cands

\* get_peak.rs 306-310
with_ort(cands, ort_cluster) ==
    IF ort_cluster # NoneV /\ ~(\E k \in 1..Len(cands) : cands[k] = ort_cluster[1])
    THEN Append(cands, ort_cluster[1]) ELSE cands

Best(i, d, sup, h) == [i |-> i, d |-> d, sup |-> sup, h |-> h]

\* get_peak.rs 322-334
better(best, d, sup, h, dist_eps) ==
    IF best.i = NoneV THEN TRUE
    ELSE IF RLt(RAdd(d, dist_eps), best.d) THEN TRUE
    ELSE IF RLe(RAbs(RSub(d, best.d)), dist_eps)
    THEN IF sup # best.sup THEN sup > best.sup ELSE RGt(h, best.h)
    ELSE FALSE

RECURSIVE best_group(_, _, _, _, _)
\* get_peak.rs 312-341
best_group(st, cands, rt, dist_eps, best) ==
    IF cands = <<>> THEN best
    ELSE best_group(st, Tail(cands), rt, dist_eps,
             IF better(best, RAbs(RSub(At(st.centers, Head(cands)), rt)),
                       Len(At(st.ws, Head(cands))), At(st.maxy, Head(cands)), dist_eps)
             THEN Best(Some(Head(cands)), RAbs(RSub(At(st.centers, Head(cands)), rt)),
                       Len(At(st.ws, Head(cands))), At(st.maxy, Head(cands)))
             ELSE best)

RECURSIVE tallest_of(_, _, _, _)
\* get_peak.rs 348-356
tallest_of(pa, members, h, best) ==
    IF members = <<>> THEN best
    ELSE IF RGt(At(pa, Head(members)).p.intensity, h)
    THEN tallest_of(pa, Tail(members), At(pa, Head(members)).p.intensity, Some(At(pa, Head(members)).p))
    ELSE tallest_of(pa, Tail(members), h, best)

\* get_peak.rs 343-357
peak_of_best(st, pa, best) ==
    IF best.i = NoneV THEN NoneV ELSE tallest_of(pa, At(st.groups, best.i[1]), RNegInf, NoneV)

\* get_peak.rs 260-341: the group chosen among st
chosen_group(st, pa, roi, w, lo, hi, m, noise, dx, ort_cluster, base_cands) ==
    best_group(st,
               with_ort(pool_of(base_cands,
                                SelectSeq(base_cands,
                                          LAMBDA i :
                                              /\ Len(At(st.ws, i)) >= need_support_of(m)
                                              /\ RGe(At(st.maxy, i),
                                                     min_h_of(RMul(R(6), noise),
                                                              RMul(<<1, 10>>,
                                                                   roi_max_h_of(st.maxy, base_cands,
                                                                                RNegInf)))))),
                        ort_cluster),
               roi.rt, RMul(<<1, 4>>, dx), Best(NoneV, RInf, 0, RNegInf))

\* get_peak.rs 216-357, on the groups st
peak_of_groups(st, pa, data, roi, w, lo, hi, m, noise, dx, ys_sm, rt_gate, ort_rt) ==
    peak_of_best(st, pa,
        chosen_group(st, pa, roi, w, lo, hi, m, noise, dx,
                     ort_cluster_of(st, groups_near(st, pa, ort_rt, rt_gate), ort_rt),
                     base_cands_of(st, w, lo, hi,
                                   indices_where(Len(st.groups),
                                                 LAMBDA i : /\ RGt(w, R(0))
                                                            /\ RGe(At(st.centers, i), lo)
                                                            /\ RLe(At(st.centers, i), hi)))))

\* get_peak.rs 161-357, with the smoothed series
peak_of_smoothed(pa, data, roi, w, lo, hi, m, noise, dx, ys_sm, rt_gate) ==
    peak_of_groups(group_peaks(Groups(<<>>, <<>>, <<>>, <<>>), pa, order_by_rt(pa, 0, <<>>), data.x,
                               ys_sm, rt_gate, RMul(R(6), noise)),
                   pa, data, roi, w, lo, hi, m, noise, dx, ys_sm, rt_gate,
                   ort_rt_of(data.x, ys_sm, roi.rt, r_search_of(w, dx)))

\* f32::max(0.0) of the noise level
noise_or_zero(level) == RMax(level, R(0))

\* get_peak.rs 148-357: peaks_all is not empty; the final smoothing panics
\* when sgg does not accept its window
peak_of_all(pa, data, roi, w, lo, hi, m, n) ==
    IF pa = <<>> THEN Ok(NoneV)
    ELSE IF sgg_panics(data.y, data.x, final_window(n)) THEN Panic("sgg")
    ELSE Ok(peak_of_smoothed(pa, data, roi, w, lo, hi, m, noise_or_zero(find_noise_level(data.y)),
                             min_spacing(data.x), sgg(data.y, data.x, final_window(n), 0),
                             RMax(RMul(<<6, 5>>, min_spacing(data.x)), <<3, 500>>)))

\* get_peak.rs 82-98
peak_of_sizes(data, roi, base, sizes, w, n) ==
    IF sizes = <<>> THEN Ok(NoneV)
    ELSE peak_of_all(peaks_of_windows(data, base, RMul(R(3), noise_or_zero(find_noise_level(data.y))),
                                      w, RSub(roi.rt, w), RAdd(roi.rt, w), sizes, 0),
                     data, roi, w, RSub(roi.rt, w), RAdd(roi.rt, w), Len(sizes), n)

\* get_peak.rs 63-357: Ok(None), Ok(Some(peak)) or the panic
peak_across_windows(data, roi, options, wss) ==
    IF series_len(data) < 3 THEN Ok(NoneV)
    ELSE peak_of_sizes(data, roi, unwrap_or(options, DefaultFindPeaksOptions),
                       WindowSizes(wss, series_len(data), <<>>), roi_half_width(roi),
                       series_len(data))

-----------------------------------------------------------------------------
(* get_peak as a state machine: one call on a series and a region of        *)
(* interest.                                                                *)

\* the longest of the short series
PeakLen == 7
\* the samples are at the baseline or at one height
PeakLevels == {0, 4}
ShortSeries(n) ==
    UNION {{DataXY(grid(k, R(1)), series(k, y)) : y \in [1..k -> PeakLevels]} : k \in 3..n}
\* series as long as the widest window of the final smoothing
WideSeries ==
    {DataXY(grid(Len(y), R(1)), series(Len(y), y)) :
        y \in {<<0, 0, 0, 0, 0, 0, 0, 0, 0, 0, 0>>, <<0, 0, 0, 4, 4, 4, 0, 0, 0, 0, 0>>,
               <<0, 0, 0, 0, 0, 4, 0, 0, 0, 0, 0>>}}
\* the regions of interest: around rt, or anywhere (window 0)
PeakRois == {Roi(R(rt), R(window)) : rt \in {1, 3}, window \in {0, 1, 2}}

GetPeakCall(data, roi) == [fn |-> "get_peak", data |-> data, roi |-> roi]
GetPeakCalls(n) == {GetPeakCall(d, roi) : d \in ShortSeries(n) \cup WideSeries, roi \in PeakRois}

\* the caller holds the arguments of the call it is about to make
InitGetPeak ==
    /\ doc = MzML(NoneV)
    /\ buf = <<>>
    /\ origin = "none"
    /\ res = Pending
    /\ buf2 = <<>>
    /\ overflow_checks = TRUE
    /\ eic_in = <<>>
    /\ eic_out = Pending
    /\ pk_in = <<>>
    /\ pool = <<>>
    /\ pk_out = Pending
    /\ ffi = <<>>
    /\ fp_in = <<>>
    /\ fp_out = Pending
    /\ ff_in = <<>>
    /\ ff_out = Pending
    /\ pd_in \in GetPeakCalls(PeakLen)
    /\ pd_out = Pending

\* get_peak(data, roi, None)
GetPeak ==
    /\ pd_in.fn = "get_peak"
    /\ pd_out.tag = "pending"
    /\ pd_out' = peak_across_windows(pd_in.data, pd_in.roi, NoneV, DEFAULT_WINDOW_SIZES)
    /\ UNCHANGED <<codec_vars, eic_vars, pk_in, pool, pk_out, ffi, fp_in, fp_out, ff_in, ff_out, pd_in>>

GetPeakNext == GetPeak

SpecGetPeak == InitGetPeak /\ [][GetPeakNext]_vars

\* C28: on a series of at least 3 points get_peak returns, None or a peak,
\* and the window of its final smoothing is one that sgg accepts
C28_NeverPanics ==
    (pd_in.fn = "get_peak" /\ pd_out.tag # "pending" /\ series_len(pd_in.data) >= 3)
        => pd_out.tag = "ok"

\* the call has returned a peak
C28_PeakReturned == pd_in.fn = "get_peak" /\ pd_out.tag = "ok" /\ pd_out.v # NoneV

\* the call has returned no peak for a series that a window size fits
C28_NoPeakReturned ==
    pd_in.fn = "get_peak" /\ pd_out.tag = "ok" /\ pd_out.v = NoneV /\ series_len(pd_in.data) >= 5

\* on the series that no window size fits the call returns what
\* get_peak_across_windows of the pool model returns
C28_SameOnShortSeries ==
    (pd_in.fn = "get_peak" /\ pd_out.tag # "pending" /\ series_len(pd_in.data) < 5)
        => /\ pd_out.tag = "ok"
           /\ pd_out.v = get_peak_across_windows(pd_in.data, pd_in.roi, NoneV, DEFAULT_WINDOW_SIZES)

\* the call has returned a peak of a series of 11 samples, smoothed at the
\* end with the window 11
C28_WideSmoothed ==
    pd_in.fn = "get_peak" /\ pd_out.tag = "ok" /\ pd_out.v # NoneV /\ series_len(pd_in.data) = 11

-----------------------------------------------------------------------------
(* The bytes of the buffer encode returns, and the size it plans.           *)

\* C29: every byte of the buffer encode returned was written by encode: the
\* buffer is the same whatever the memory behind Vec::with_capacity held
C29_EveryByteWritten ==
    origin = "encode" => \A g \in UninitBytes : buf = encode(doc, g)

\* the buffers of the documents without spectra whose arrays need no padding
\* do not depend on that memory
C29_NoSpectrumNoPadding ==
    (origin = "encode" /\ IsSome(doc.run) /\ doc.run[1].spectra = <<>>
                       /\ \A i \in 1..Len(doc.run[1].chromatograms) :
                              doc.run[1].chromatograms[i].id # <<>>)
        => \A g \in UninitBytes : buf = encode(doc, g)

\* runs whose arrays leave the cursor off a multiple of 8, with arrays that
\* are present but empty and chromatograms with and without an id
LayoutSpectra ==
    { SpectrumSummary(ToU(0), ToU(2), Some(1), NoneV, NoneV, NoneV, NoneV, NoneV, NoneV, NoneV,
                      NoneV, Some(<<F64_1_5, F64_100>>), Some(<<F32_1, F32_2_5>>), NoPrecursor),
      SpectrumSummary(ToU(1), ToU(3), Some(1), NoneV, NoneV, NoneV, NoneV, NoneV, NoneV, NoneV,
                      NoneV, Some(<<F64_100>>), Some(<<F32_2_5, F32_1, F32_0_1>>), NoPrecursor),
      SpectrumSummary(ToU(2), ToU(0), Some(1), NoneV, NoneV, NoneV, NoneV, NoneV, NoneV, NoneV,
                      NoneV, Some(<<>>), Some(<<>>), NoPrecursor) }
LayoutChromatograms ==
    { ChromatogramSummary(ToU(0), ToU(1), Some(<<F64_0>>), Some(<<F32_1>>), <<84, 73, 67>>),
      ChromatogramSummary(ToU(1), ToU(0), Some(<<>>), Some(<<>>), <<>>),
      ChromatogramSummary(ToU(2), ToU(1), NoneV, Some(<<F32_0_1>>), <<66>>) }
\* the longest lists of spectra and of chromatograms of these runs
MaxLayout == 2
LayoutDocs(n) ==
    {MzML(Some(Run(sp, ch))) : sp \in SeqsUpTo(LayoutSpectra, n),
                               ch \in SeqsUpTo(LayoutChromatograms, n)}

InitLayout == CodecInit(LayoutDocs(MaxLayout))

LayoutNext == Encode

SpecLayout == InitLayout /\ [][LayoutNext]_vars

\* the planned buffer holds every copy of the layout L and was never grown
plan_covers(L, tables) ==
    /\ tables <= L.plan
    /\ L.cur <= L.plan
    /\ L.len = L.plan
    /\ \A k \in 1..Len(L.writes) :
           /\ L.writes[k].pos >= tables
           /\ L.writes[k].pos + Len(L.writes[k].bytes) <= L.plan

\* C30: the size encode plans is at least the final write cursor, so the
\* tables, the arrays and the ids are written inside the planned buffer,
\* ensure_cap never grows it, and the buffer returned ends at the cursor
C30_PlanCoversCursor ==
    (origin = "encode" /\ IsSome(doc.run))
        => /\ plan_covers(EncodeLayout(doc.run[1]), TablesSize(doc.run[1]))
           /\ Len(buf) = EncodeLayout(doc.run[1]).cur

\* a run with arrays that are present but empty and a chromatogram without
\* id has been encoded, and the plan was larger than the final cursor
C30_Witness ==
    /\ origin = "encode"
    /\ IsSome(doc.run)
    /\ \E i \in 1..Len(doc.run[1].spectra) : doc.run[1].spectra[i].intensity_array = Some(<<>>)
    /\ \E i \in 1..Len(doc.run[1].chromatograms) : doc.run[1].chromatograms[i].id = <<>>
    /\ Len(buf) < PlanSize(doc.run[1])

\* a run whose plan is exactly the final cursor, padding included
C30_PlanIsCursor ==
    /\ origin = "encode"
    /\ IsSome(doc.run)
    /\ Len(doc.run[1].spectra) = 2
    /\ Len(buf) = PlanSize(doc.run[1])
    /\ Len(buf) > a8(TablesSize(doc.run[1])) + 40

-----------------------------------------------------------------------------
(* binary64 and binary32 arithmetic.  A natural number of any size is the   *)
(* sequence of its digits in base 2^15, lowest first, without leading       *)
(* zeros; a float is sign * m * 2^e with m such a number of exactly 53 (or  *)
(* 24) bits, or 0.  The operations round to nearest, ties to even, as the   *)
(* hardware does; subnormal numbers, overflow, infinities and NaN are not   *)
(* modelled.                                                                *)


RECURSIVE bits_of_digit(_)
bits_of_digit(d) == IF d = 0 THEN 0 ELSE 1 + bits_of_digit(d \div 2)

NatBase == Pow2(15)
\* the bits of a digit
NatDigitBits == bits_of_digit(NatBase - 1)

RECURSIVE nat_trim(_)
nat_trim(a) == IF a # <<>> /\ a[Len(a)] = 0 THEN nat_trim(SubSeq(a, 1, Len(a) - 1)) ELSE a

RECURSIVE nat_of(_)
nat_of(n) == IF n = 0 THEN <<>> ELSE <<n % NatBase>> \o nat_of(n \div NatBase)

RECURSIVE nat_to_int(_)
nat_to_int(a) == IF a = <<>> THEN 0 ELSE Head(a) + NatBase * nat_to_int(Tail(a))

nat_digit(a, i) == IF i <= Len(a) THEN a[i] ELSE 0

RECURSIVE nat_cmp_at(_, _, _)
nat_cmp_at(a, b, i) ==
    IF i = 0 THEN 0
    ELSE IF a[i] # b[i] THEN (IF a[i] < b[i] THEN 0 - 1 ELSE 1)
    ELSE nat_cmp_at(a, b, i - 1)

\* -1, 0 or 1 as a is below, equal to or above b
nat_cmp(a, b) ==
    IF Len(a) # Len(b) THEN (IF Len(a) < Len(b) THEN 0 - 1 ELSE 1) ELSE nat_cmp_at(a, b, Len(a))

RECURSIVE nat_add_from(_, _, _, _)
nat_add_from(a, b, i, carry) ==
    IF i > Len(a) /\ i > Len(b) THEN (IF carry = 0 THEN <<>> ELSE <<carry>>)
    ELSE <<(nat_digit(a, i) + nat_digit(b, i) + carry) % NatBase>>
             \o nat_add_from(a, b, i + 1, (nat_digit(a, i) + nat_digit(b, i) + carry) \div NatBase)

nat_add(a, b) == nat_add_from(a, b, 1, 0)

RECURSIVE nat_sub_from(_, _, _, _)
nat_sub_from(a, b, i, borrow) ==
    IF i > Len(a) THEN <<>>
    ELSE <<(a[i] - nat_digit(b, i) - borrow + NatBase) % NatBase>>
             \o nat_sub_from(a, b, i + 1, IF a[i] - nat_digit(b, i) - borrow < 0 THEN 1 ELSE 0)

\* a - b for a >= b
nat_sub(a, b) == nat_trim(nat_sub_from(a, b, 1, 0))

RECURSIVE nat_mul_small_from(_, _, _, _)
nat_mul_small_from(a, d, i, carry) ==
    IF i > Len(a) THEN (IF carry = 0 THEN <<>> ELSE <<carry>>)
    ELSE <<(a[i] * d + carry) % NatBase>>
             \o nat_mul_small_from(a, d, i + 1, (a[i] * d + carry) \div NatBase)

\* a * d for a digit d
nat_mul_small(a, d) == IF d = 0 THEN <<>> ELSE nat_mul_small_from(a, d, 1, 0)

nat_shift_digits(a, k) == IF a = <<>> THEN <<>> ELSE [i \in 1..k |-> 0] \o a

RECURSIVE nat_mul_from(_, _, _)
nat_mul_from(a, b, i) ==
    IF i > Len(a) THEN <<>>
    ELSE nat_add(nat_shift_digits(nat_mul_small(b, a[i]), i - 1), nat_mul_from(a, b, i + 1))

nat_mul(a, b) == nat_mul_from(a, b, 1)

\* a * 2^k
nat_shl(a, k) ==
    nat_shift_digits(nat_mul_small(a, Pow2(k % NatDigitBits)), k \div NatDigitBits)

RECURSIVE nat_div_small_from(_, _, _, _)
\* the digits of floor(a / d) from digit i down, for a digit d
nat_div_small_from(a, d, i, rem) ==
    IF i = 0 THEN <<>>
    ELSE Append(nat_div_small_from(a, d, i - 1, (rem * NatBase + a[i]) % d),
                (rem * NatBase + a[i]) \div d)

\* floor(a / 2^k)
nat_shr(a, k) ==
    IF k \div NatDigitBits >= Len(a) THEN <<>>
    ELSE nat_trim(nat_div_small_from(SubSeq(a, k \div NatDigitBits + 1, Len(a)),
                                     Pow2(k % NatDigitBits),
                                     Len(a) - k \div NatDigitBits, 0))

\* the number of bits of a
nat_bit_len(a) ==
    IF a = <<>> THEN 0 ELSE (Len(a) - 1) * NatDigitBits + bits_of_digit(a[Len(a)])

\* bit i of a, bit 0 the lowest
nat_bit(a, i) ==
    (nat_digit(a, i \div NatDigitBits + 1) \div Pow2(i % NatDigitBits)) % 2

\* whether the k lowest bits of a are all 0
nat_low_zero(a, k) ==
    /\ \A i \in 1..(k \div NatDigitBits) : nat_digit(a, i) = 0
    /\ nat_digit(a, k \div NatDigitBits + 1) % Pow2(k % NatDigitBits) = 0

\* 2 * a + bit
nat_double(a, bit) == nat_add_from(a, a, 1, bit)

RECURSIVE nat_fitting(_, _, _)
\* the largest digit q <= guess with q * d <= r
nat_fitting(d, r, guess) ==
    IF nat_cmp(nat_mul_small(d, guess), r) > 0 THEN nat_fitting(d, r, guess - 1) ELSE guess

\* the guess of a quotient digit from the two highest digits of r and the highest of d
nat_guess(d, r) ==
    IF (nat_digit(r, Len(d) + 1) * NatBase + nat_digit(r, Len(d))) \div d[Len(d)] < NatBase
    THEN (nat_digit(r, Len(d) + 1) * NatBase + nat_digit(r, Len(d))) \div d[Len(d)]
    ELSE NatBase - 1

RECURSIVE nat_divmod_from(_, _, _, _, _)
\* long division of a by d, digit i of a next; r is the remainder so far with that digit,
\* q the quotient so far, lowest digit first
nat_divmod_from(a, d, i, q, r) ==
    IF nat_cmp(r, d) < 0
    THEN (IF i = 1 THEN <<<<0>> \o q, r>>
          ELSE nat_divmod_from(a, d, i - 1, <<0>> \o q, nat_trim(<<a[i - 1]>> \o r)))
    ELSE IF i = 1
    THEN <<<<nat_fitting(d, r, nat_guess(d, r))>> \o q,
           nat_sub(r, nat_mul_small(d, nat_fitting(d, r, nat_guess(d, r))))>>
    ELSE nat_divmod_from(a, d, i - 1, <<nat_fitting(d, r, nat_guess(d, r))>> \o q,
                         nat_trim(<<a[i - 1]>> \o nat_sub(r, nat_mul_small(d, nat_fitting(d, r, nat_guess(d, r))))))

\* the shift that brings the highest digit of d to its full width
nat_div_shift(d) == NatDigitBits - bits_of_digit(d[Len(d)])

\* <<floor(a / d), a remainder that is 0 exactly when d divides a>>
nat_divmod(a, d) ==
    nat_divmod_from(nat_shl(a, nat_div_shift(d)), nat_shl(d, nat_div_shift(d)),
                    Len(nat_shl(a, nat_div_shift(d))),
                    <<>>, <<nat_shl(a, nat_div_shift(d))[Len(nat_shl(a, nat_div_shift(d)))]>>)

RECURSIVE nat_trailing_zeros(_, _)
nat_trailing_zeros(a, i) == IF nat_bit(a, i) = 1 THEN i ELSE nat_trailing_zeros(a, i + 1)

\* the bits of the significand of an f64 and of an f32
F64Bits == 53
F32Bits == 24

Bin(s, m, e) == [s |-> s, m |-> m, e |-> e]
BinZero == Bin(1, <<>>, 0)

\* the significand q at exponent e, one bit shorter when the rounding carried into a new bit
bin_carried(s, q, e, p) ==
    IF nat_bit_len(q) > p THEN Bin(s, nat_shr(q, 1), e + 1) ELSE Bin(s, q, e)

\* whether dropping the k lowest bits of m rounds up: above a half, or a half and an odd rest
bin_rounds_up(m, k) ==
    nat_bit(m, k - 1) = 1 /\ (~nat_low_zero(m, k - 1) \/ nat_bit(m, k) = 1)

bin_round_by(s, m, e, p, k) ==
    IF k <= 0 THEN Bin(s, nat_shl(m, 0 - k), e + k)
    ELSE IF bin_rounds_up(m, k) THEN bin_carried(s, nat_add(nat_shr(m, k), <<1>>), e + k, p)
    ELSE Bin(s, nat_shr(m, k), e + k)

\* s * m * 2^e to the nearest float of p significand bits, ties to even
bin_round(s, m, e, p) ==
    IF m = <<>> THEN BinZero ELSE bin_round_by(s, m, e, p, nat_bit_len(m) - p)

bin_of_int(n) == bin_round(IF n < 0 THEN 0 - 1 ELSE 1, nat_of(IF n < 0 THEN 0 - n ELSE n), 0, F64Bits)

bin_neg(a) == Bin(0 - a.s, a.m, a.e)

\* the sum of two aligned significands with their signs
bin_add_aligned(sa, ma, sb, mb, e) ==
    IF sa = sb THEN bin_round(sa, nat_add(ma, mb), e, F64Bits)
    ELSE IF nat_cmp(ma, mb) >= 0 THEN bin_round(sa, nat_sub(ma, mb), e, F64Bits)
    ELSE bin_round(sb, nat_sub(mb, ma), e, F64Bits)

bin_add(a, b) ==
    IF a.m = <<>> THEN b
    ELSE IF b.m = <<>> THEN a
    ELSE IF a.e >= b.e THEN bin_add_aligned(a.s, nat_shl(a.m, a.e - b.e), b.s, b.m, b.e)
    ELSE bin_add_aligned(a.s, a.m, b.s, nat_shl(b.m, b.e - a.e), a.e)

bin_sub(a, b) == bin_add(a, bin_neg(b))

bin_mul(a, b) ==
    IF a.m = <<>> \/ b.m = <<>> THEN BinZero
    ELSE bin_round(a.s * b.s, nat_mul(a.m, b.m), a.e + b.e, F64Bits)

\* the spare bits of a quotient: 53-bit significands give one of 57 or 58 bits
DivBits == F64Bits + 4

\* the quotient with a last bit that is 1 when the division left a remainder
bin_div_of(s, qr, e) ==
    bin_round(s, nat_double(nat_trim(qr[1]), IF qr[2] = <<>> THEN 0 ELSE 1), e - 1, F64Bits)

\* what a division by zero gives: an infinity or NaN, which no operation here takes further
BinInvalid == Bin(0, <<>>, 0)

bin_div(a, b) ==
    IF b.m = <<>> THEN BinInvalid
    ELSE IF a.m = <<>> THEN BinZero
    ELSE bin_div_of(a.s * b.s, nat_divmod(nat_shl(a.m, DivBits), b.m), a.e - b.e - DivBits)

\* `as f32`
bin_as_f32(a) == bin_round(a.s, a.m, a.e, F32Bits)

\* an f32 as an f64 (exact)
bin_as_f64(a) == bin_round(a.s, a.m, a.e, F64Bits)

\* the float as a fraction in lowest terms, when both terms fit 31 bits
frac_of_odd(s, m, e) ==
    IF e >= 0 THEN <<s * nat_to_int(m) * Pow2(e), 1>> ELSE <<s * nat_to_int(m), Pow2(0 - e)>>

frac_of_bin(a) ==
    IF a.m = <<>> THEN <<0, 1>>
    ELSE frac_of_odd(a.s, nat_shr(a.m, nat_trailing_zeros(a.m, 0)), a.e + nat_trailing_zeros(a.m, 0))

\* the f64 nearest to the fraction n / d
bin_of_frac(r) == bin_div(bin_of_int(r[1]), bin_of_int(r[2]))
-----------------------------------------------------------------------------
(* sgg.rs in binary64: the same steps as above, each operation rounded.     *)
(* The inputs and the result are fractions, the values of the f32 samples   *)
(* and of the f64 grid.                                                     *)

\* the function f on 1..n as the sequence of its values, each computed once
collected(f) == f \o <<>>

RECURSIVE gen_fact_f64_from(_, _, _)
gen_fact_f64_from(j, a, acc) ==
    IF j > a THEN acc ELSE gen_fact_f64_from(j + 1, a, bin_mul(acc, bin_of_int(j)))
\* sgg.rs 210-223
gen_fact_f64(a, b) == IF a >= b THEN gen_fact_f64_from(a - b + 1, a, bin_of_int(1)) ELSE bin_of_int(1)

\* sgg.rs 184
gram_denom(m, k) == bin_mul(bin_of_int(k), bin_of_int(2 * m - k + 1))

\* sgg.rs 185-202: g[k][s] from the rows g[0..k-1]
gram_entry(i, m, k, s, g) ==
    bin_sub(bin_mul(bin_div(bin_of_int(4 * k - 2), gram_denom(m, k)),
                    bin_add(bin_mul(bin_of_int(i), At(At(g, k - 1), s)),
                            IF s > 0 THEN bin_mul(bin_of_int(s), At(At(g, k - 1), s - 1)) ELSE BinZero)),
            bin_mul(bin_div(bin_mul(bin_of_int(k - 1), bin_of_int(2 * m + k)), gram_denom(m, k)),
                    IF k >= 2 THEN At(At(g, k - 2), s) ELSE BinZero))

RECURSIVE gram_rows(_, _, _, _, _, _)
\* sgg.rs 181-206: the rows k..n_max after the rows g
gram_rows(i, m, n_max, s_max, k, g) ==
    IF k > n_max THEN g
    ELSE gram_rows(i, m, n_max, s_max, k + 1,
                   Append(g, collected([s \in 1..(s_max + 1) |-> gram_entry(i, m, k, s - 1, g)])))

\* sgg.rs 175-208: the table g[k][s]; g[0] is 1.0 followed by zeros
gram_table_f64(i, m, n_max, s_max) ==
    gram_rows(i, m, n_max, s_max, 1,
              <<collected([s \in 1..(s_max + 1) |-> IF s = 1 THEN bin_of_int(1) ELSE BinZero])>>)

\* sgg.rs 132-152: gi for s = 0 and gt for the derivative s: row idx holds tbl[k][s], k = 0..n
gram_column_of(tbl, s) == collected([k \in 1..Len(tbl) |-> At(At(tbl, k - 1), s)])

gram_column(m, n, s) ==
    collected([idx \in 1..m |-> gram_column_of(gram_table_f64(idx - 1 - m \div 2, m \div 2, n, s), s)])

\* sgg.rs 155-160
sg_coef_f64(two_m, k) ==
    bin_mul(bin_of_int(2 * k + 1), bin_div(gen_fact_f64(two_m, k), gen_fact_f64(two_m + k + 1, k + 1)))

RECURSIVE sg_weight_f64(_, _, _, _, _)
\* sgg.rs 165-169: the sum over k of coef[k] * gi[j_idx][k] * gt[t_idx][k]
sg_weight_f64(coef, gi_row, gt_row, k, sum) ==
    IF k >= Len(coef) THEN sum
    ELSE sg_weight_f64(coef, gi_row, gt_row, k + 1,
                       bin_add(sum, bin_mul(bin_mul(At(coef, k), At(gi_row, k)), At(gt_row, k))))

\* sgg.rs 162-172
sg_weights_f64(m, coef, gi, gt) ==
    collected([t \in 1..m |-> collected([j \in 1..m |-> sg_weight_f64(coef, gi[j], gt[t], 0, BinZero)])])

\* sgg.rs 127-173
full_weights_f64(m, n, s) ==
    sg_weights_f64(m, collected([k \in 1..(n + 1) |-> sg_coef_f64(2 * (m \div 2), k - 1)]),
                   gram_column(m, n, 0), gram_column(m, n, s))

RECURSIVE pref_f64(_, _)
\* sgg.rs 100-103: pref[0..n-1] after the entries p
pref_f64(xs, p) ==
    IF Len(p) >= Len(xs) THEN p
    ELSE pref_f64(xs, Append(p, bin_add(p[Len(p)], bin_sub(At(xs, Len(p)), At(xs, Len(p) - 1)))))

RECURSIVE powi_f64(_, _)
powi_f64(a, e) == IF e = 1 THEN a ELSE bin_mul(a, powi_f64(a, e - 1))

\* sgg.rs 106-122: hs[c], for a derivative of 1 or more
hs_at_f64(p, derivative, start, end_excl) ==
    IF end_excl > start
    THEN powi_f64(bin_div(bin_sub(At(p, end_excl), At(p, start)), bin_of_int(end_excl - start)),
                  derivative)
    ELSE bin_of_int(1)

hs_of_pref(p, half, derivative) ==
    collected([c \in 1..Len(p) |->
                  hs_at_f64(p, derivative, Max(c - 1 - half, 0), Min(c - 1 + half, Len(p) - 1))])

\* sgg.rs 93-125
get_hs_f64(xs, half, derivative) ==
    IF derivative = 0 \/ Len(xs) < 2 THEN [c \in 1..Len(xs) |-> bin_of_int(1)]
    ELSE hs_of_pref(pref_f64(xs, <<BinZero>>), half, derivative)

RECURSIVE sg_dot_f64(_, _, _, _, _)
\* sgg.rs 68-70, 83-85: d += w[l] * y64[off + l] for l = 0..window_size-1
sg_dot_f64(w, y64, off, l, d) ==
    IF l >= Len(w) THEN d
    ELSE sg_dot_f64(w, y64, off, l + 1, bin_add(d, bin_mul(At(w, l), At(y64, off + l))))

\* sgg.rs 76-77, 87: (d / hs[idx]) as f32
sg_f32(d, h) == frac_of_bin(bin_as_f32(bin_div(d, h)))

\* sgg.rs 59-90: ans[idx]
sg_ans_f64(y64, weights, hs, half, idx) ==
    IF idx < half THEN sg_f32(sg_dot_f64(At(weights, idx), y64, 0, 0, BinZero), At(hs, idx))
    ELSE IF idx >= Len(y64) - half
    THEN sg_f32(sg_dot_f64(At(weights, idx - (Len(y64) - half) + half + 1), y64,
                           Len(y64) - Len(weights), 0, BinZero), At(hs, idx))
    ELSE sg_f32(sg_dot_f64(At(weights, half), y64, idx - half, 0, BinZero), At(hs, idx))

bins_of(s) == collected([i \in 1..Len(s) |-> bin_of_frac(s[i])])

sg_all_f64(y64, weights, hs, half) ==
    collected([c \in 1..Len(y64) |-> sg_ans_f64(y64, weights, hs, half, c - 1)])

\* sgg.rs 18-91 with the weights of full_weights, for a call that does not panic
sgg_f64(ys, xs, window_size, derivative, weights) ==
    sg_all_f64(bins_of(ys), weights, get_hs_f64(bins_of(xs), window_size \div 2, derivative),
               window_size \div 2)

-----------------------------------------------------------------------------
(* scan_for_peaks and find_peaks on constant series, with the smoothing and *)
(* the derivative of sgg.rs rounded as in binary64; what follows the        *)
(* derivative is computed exactly, as above.                                *)

\* the largest constant series: the window 5 fits it, the window 7 does not
RoundedLen == 6

RECURSIVE sg_table_f64(_, _, _)
\* full_weights(m, 3, s) for the odd windows m from 5 to RoundedLen, at index (m - 5) / 2 + 1
sg_table_f64(s, m, tbl) ==
    IF m > RoundedLen THEN tbl
    ELSE sg_table_f64(s, m + 2, Append(tbl, full_weights_f64(m, SG_POLYNOMIAL, s)))

\* the weights are computed once per window and derivative
SG_WEIGHTS_F64 == <<sg_table_f64(0, 5, <<>>), sg_table_f64(1, 5, <<>>)>>
weights_f64_of(window_size, derivative) ==
    SG_WEIGHTS_F64[derivative + 1][(window_size - 5) \div 2 + 1]

\* sgg(ys, xs, SggOptions { window_size, derivative, polynomial: 3 })
sgg_rounded(ys, xs, window_size, derivative) ==
    sgg_f64(ys, xs, window_size, derivative, weights_f64_of(window_size, derivative))

\* scan_for_peaks.rs 136-267: the candidates (x, y, idx) of one window
scan_one_ws_f64(data, ws_in, eps) ==
    IF Len(data.x) < 3 THEN <<>>
    ELSE scan_smoothed(data.x, sgg_rounded(data.y, data.x, Max(ws_in, 3), 0),
                       sgg_rounded(data.y, data.x, Max(ws_in, 3), 1), eps, Max(ws_in, 3))

RECURSIVE scan_all_f64(_, _, _, _)
\* scan_for_peaks.rs 53-59
scan_all_f64(data, sizes, eps, all) ==
    IF sizes = <<>> THEN all
    ELSE scan_all_f64(data, Tail(sizes), eps, all \o scan_one_ws_f64(data, Head(sizes), eps))

\* scan_for_peaks.rs 38-59
scan_sizes_f64(data, options, sizes) ==
    IF sizes = <<>> THEN <<>>
    ELSE scan_voted(data.x, scan_all_f64(data, sizes, options.epsilon, <<>>), Len(sizes))

\* scan_for_peaks.rs 25-134
scan_for_peaks_across_windows_f64(data, options, window_sizes) ==
    IF Len(data.x) < 3 \/ Len(data.x) # Len(data.y) THEN <<>>
    ELSE scan_sizes_f64(data, options, WindowSizes(window_sizes, Len(data.x), <<>>))

\* scan_for_peaks.rs 21-23
scan_for_peaks_f64(data, options) ==
    scan_for_peaks_across_windows_f64(data, options, SCAN_WINDOW_SIZES)

\* the intensities of a constant series, each an f32
RoundedLevels == {Pow2(24), Pow2(26), Pow2(27), Pow2(28)}
\* the time steps 1, 2^-4, 2^-8 and 2^-10 of its grid
RoundedSteps == {<<1, Pow2(0)>>, <<1, Pow2(4)>>, <<1, Pow2(8)>>, <<1, Pow2(10)>>}

\* n samples of the one intensity c, dx apart from time 0
constant_on(n, c, dx) == DataXY([i \in 1..n |-> RMul(R(i - 1), dx)], [i \in 1..n |-> R(c)])

RoundedSeries(n) ==
    {constant_on(k, c, dx) : k \in 1..n, c \in RoundedLevels, dx \in RoundedSteps}

RoundedCalls(n) == {PdCall("scan_for_peaks", d, SCAN_WINDOW_SIZES) : d \in RoundedSeries(n)}

\* the caller holds the arguments of the call it is about to make
InitRounded ==
    /\ doc = MzML(NoneV)
    /\ buf = <<>>
    /\ origin = "none"
    /\ res = Pending
    /\ buf2 = <<>>
    /\ overflow_checks = TRUE
    /\ eic_in = <<>>
    /\ eic_out = Pending
    /\ pk_in = <<>>
    /\ pool = <<>>
    /\ pk_out = Pending
    /\ ffi = <<>>
    /\ fp_in = <<>>
    /\ fp_out = Pending
    /\ ff_in = <<>>
    /\ ff_out = Pending
    /\ pd_in \in RoundedCalls(RoundedLen)
    /\ pd_out = Pending

\* scan_for_peaks(&data, None)
ScanForPeaksF64 ==
    /\ pd_in.fn = "scan_for_peaks"
    /\ pd_out.tag = "pending"
    /\ pd_out' = Ok(scan_for_peaks_f64(pd_in.data, DefaultScanPeaksOptions))
    /\ UNCHANGED <<codec_vars, eic_vars, pk_in, pool, pk_out, ffi, fp_in, fp_out, ff_in, ff_out, pd_in>>

RoundedNext == ScanForPeaksF64

SpecRounded == InitRounded /\ [][RoundedNext]_vars

\* C21: for a constant signal (all y values equal) of any length,
\* scan_for_peaks returns no apex positions and find_peaks returns no peaks.
C21_ConstantHasNoPeaks == pd_out.tag = "ok" => pd_out.v = <<>>

\* the smoothed constant series is the series itself: only the derivative is off
C21_SmoothedIsConstant ==
    Len(pd_in.data.y) >= 5 => sgg_rounded(pd_in.data.y, pd_in.data.x, 5, 0) = pd_in.data.y

\* a call on a constant series returned nothing, as the claim says
C21_NothingReturned == pd_out.tag = "ok" /\ pd_out.v = <<>> /\ Len(pd_in.data.y) >= 5

\* with sgg computed exactly, a constant series has no positions and no peaks
C21_ExactHasNoPeaks ==
    (pd_in.fn \in {"scan_for_peaks", "find_peaks"} /\ pd_out.tag = "ok"
        /\ \A i \in 1..Len(pd_in.data.y) : pd_in.data.y[i] = pd_in.data.y[1])
        => pd_out.v = <<>>

=============================================================================
